---------------------------- MODULE Spec2Model ----------------------------
(***************************************************************************)
(* XSD review tool: the structural core of frontend/src/lib/xsd-parser.ts, *)
(* the dependency extractor and role classifier of                         *)
(* backend/src/utils/xsd-dependency-parser.ts, the role assignment of      *)
(* group creation in backend/src/routes/schemaGroups.ts, and the file list *)
(* of the upload form in frontend/src/components/SchemaGroupUpload.tsx.    *)
(*                                                                         *)
(* The schema text is handed to fast-xml-parser (preserveOrder), whose     *)
(* output is an ordered list of items; parseXsd turns the first top-level  *)
(* xs:schema / xsd:schema item into a tree of XsdNode objects, builds a    *)
(* name index over it and resolves ref= nodes against that index.          *)
(*                                                                         *)
(* Strings are TLA+ strings, so paths, index keys, prefix stripping and    *)
(* split(':') are computed character by character as the code does.        *)
(***************************************************************************)
EXTENDS Integers, Sequences, FiniteSets, TLC

VARIABLES
    xsdContent,   \* the schema text: the items the XML tokenizer reads from it
    idCounter,    \* module-level "let idCounter" of xsd-parser.ts
    outcome,      \* how the last parseXsd call ended: pending | null | root | throws
    tree,         \* the XsdNode objects of the returned tree, in creation order
    history,      \* the earlier parseXsd calls of this process: text and result
    files,        \* the file list of a group upload: { filename, content, isMaster }
    role,         \* the last determineSchemaRole call: target filename and result
    filesWithRoles,  \* the roles recorded by the last group creation
    schemaDependency, \* the dependency rows recorded by the last group creation
    dependencyText,      \* the content handed to parseXsdDependencies
    dependencyList,  \* what the last parseXsdDependencies call returned
    picked,       \* the files the user has picked for the upload form so far:
                  \* name and pieces of text of each, in the order picked
    fileList,     \* the FileList of a drop or selection the upload form has not read yet
    uploadedFiles,  \* the state "files" of the upload form: UploadedFile objects
    uploadEvent,  \* the last thing done to the upload list, and whether a flag
                  \* was set by hand since handleFiles last computed the flags
    uploadRole    \* the last determineRole call of the form's rendering

xsdVars == <<xsdContent, idCounter, outcome, tree>>
groupVars == <<files, role, filesWithRoles, schemaDependency, dependencyText, dependencyList>>
uploadVars == <<picked, fileList, uploadedFiles, uploadEvent, uploadRole>>
vars == <<xsdContent, idCounter, outcome, tree, history, files, role, filesWithRoles,
          schemaDependency, dependencyText, dependencyList, picked, fileList,
          uploadedFiles, uploadEvent, uploadRole>>

-----------------------------------------------------------------------------
(* Bounds of the explored input space.                                     *)

\* items (elements, text, comments) of one schema text, top-level ones included
MaxItems == 5

-----------------------------------------------------------------------------
(* JavaScript values.                                                      *)

Largest(S) == CHOOSE x \in S : \A y \in S : y <= x
Smallest(S) == CHOOSE x \in S : \A y \in S : x <= y

\* the value "undefined" of an optional string field
Undefined == "<undefined>"

\* JavaScript truthiness of an optional string (null, undefined and '' are falsy)
Truthy(v) == v # Undefined /\ v # "<null>" /\ v # ""

\* a || b on optional strings
OrElse(a, b) == IF Truthy(a) THEN a ELSE b

\* s.startsWith(p)
StartsWith(s, p) == Len(s) >= Len(p) /\ SubSeq(s, 1, Len(p)) = p

\* s.substring(n)
Substring(s, n) == SubSeq(s, n + 1, Len(s))

\* s.includes(':')
RECURSIVE IncludesColon(_)
IncludesColon(s) ==
    IF Len(s) = 0 THEN FALSE
    ELSE IF Head(s) = ":" THEN TRUE
    ELSE IncludesColon(Tail(s))

\* s.split(':'): the colon-free pieces of s, in order (at least one piece)
RECURSIVE SplitColonFrom(_, _, _)
SplitColonFrom(s, cur, acc) ==
    IF Len(s) = 0 THEN Append(acc, cur)
    ELSE IF Head(s) = ":" THEN SplitColonFrom(Tail(s), "", Append(acc, cur))
    ELSE SplitColonFrom(Tail(s), cur \o Head(s), acc)

SplitColon(s) == SplitColonFrom(s, "", <<>>)

\* s.replace(/^xs:|^xsd:/, '')
StripSchemaPrefix(s) ==
    IF StartsWith(s, "xs:") THEN Substring(s, 3)
    ELSE IF StartsWith(s, "xsd:") THEN Substring(s, 4)
    ELSE s

\* obj[key] of a plain object: undefined when the key is absent
Get(obj, key) == IF key \in DOMAIN obj THEN obj[key] ELSE Undefined

\* map.set(key, value)
MapSet(map, key, value) ==
    [k \in DOMAIN map \cup {key} |-> IF k = key THEN value ELSE map[k]]

\* the empty object / the empty Map
EmptyMap == [k \in {} |-> 0]

-----------------------------------------------------------------------------
(* The tokenizer's output (XMLParser with preserveOrder: true).            *)
(* One item per element, text run or comment, in document order; "parent"  *)
(* is the position of the enclosing element's item, 0 at top level.  An    *)
(* item is the object the tokenizer builds: its own keys in insertion      *)
(* order and, under ":@", its attributes keyed "@_<attribute>".            *)

Attrs0 == EmptyMap
AttrsName(n) == [k \in {"@_name"} |-> n]
AttrsRef(r) == [k \in {"@_ref"} |-> r]
AttrsNameRef(n, r) == [k \in {"@_name", "@_ref"} |-> IF k = "@_name" THEN n ELSE r]

Elem(tag, attrs) ==
    [keys |-> IF attrs = Attrs0 THEN <<tag>> ELSE <<tag, ":@">>, attrs |-> attrs]
TextItem == [keys |-> <<"#text">>, attrs |-> Attrs0]
CommentItem == [keys |-> <<"#comment">>, attrs |-> Attrs0]

\* the shapes every explored text may use freely below the top level
CoreShapes ==
    { Elem("xs:element", AttrsName("A")),
      Elem("xs:complexType", AttrsName("A")),
      Elem("xs:sequence", Attrs0),
      Elem("xs:element", AttrsRef("A")) }

\* <xs:annotation><xs:documentation>text</xs:documentation></xs:annotation>
AnnotationShape == Elem("xs:annotation", Attrs0)
DocumentationShape == Elem("xs:documentation", Attrs0)

\* shapes of which an explored text holds at most one, and then fewer than
\* MaxItems items in all
RareShapes ==
    { TextItem,
      AnnotationShape,
      Elem("xsd:element", AttrsName("A")),
      Elem("xs:element", AttrsRef("tns:A")),
      Elem("xs:element", AttrsRef("p:A:q")),
      Elem("xs:element", AttrsName("tns:A")),
      Elem("xs:complexType", AttrsName("element:A")),
      Elem("xs:element", AttrsNameRef("A", "B")),
      Elem("xs:element", AttrsNameRef("", "A")),
      Elem("xs:element", AttrsName("")) }

\* the usual document element, and the other things found at top level
TopCoreShapes == { Elem("xs:schema", Attrs0) }
TopRareShapes == { Elem("xsd:schema", Attrs0), Elem("schema", Attrs0), CommentItem }

ShapeOf(item) == [keys |-> item.keys, attrs |-> item.attrs]

\* the elements that explored texts put further items into
Containers ==
    { Elem("xs:schema", Attrs0),
      Elem("xsd:schema", Attrs0),
      Elem("schema", Attrs0),
      Elem("xs:sequence", Attrs0),
      Elem("xs:complexType", AttrsName("A")),
      Elem("xs:element", AttrsName("A")),
      AnnotationShape,
      DocumentationShape }

\* what explored texts put into the element of item parent (0: the top level)
ShapesInside(doc, parent) ==
    IF parent = 0 THEN TopCoreShapes \cup TopRareShapes
    ELSE IF ShapeOf(doc[parent]) = AnnotationShape THEN {DocumentationShape}
    ELSE IF ShapeOf(doc[parent]) = DocumentationShape THEN {TextItem}
    ELSE CoreShapes \cup RareShapes

\* positions of the items directly inside item i (i = 0: the top-level items)
RECURSIVE ContentFrom(_, _, _)
ContentFrom(doc, i, j) ==
    IF j > Len(doc) THEN <<>>
    ELSE IF doc[j].parent = i THEN <<j>> \o ContentFrom(doc, i, j + 1)
    ELSE ContentFrom(doc, i, j + 1)

Content(doc, i) == ContentFrom(doc, i, 1)

\* the elements still open after the last item: where the next item can go
RECURSIVE OpenElements(_, _)
OpenElements(doc, i) ==
    IF i = 0 THEN {0}
    ELSE (IF ShapeOf(doc[i]) \in Containers THEN {i} ELSE {})
             \cup OpenElements(doc, doc[i].parent)

\* the rare items of a text: those of a rare shape (the text of a
\* documentation element aside), and a top-level item that follows a
\* top-level xs:schema
RareItems(doc) ==
    { i \in 1..Len(doc) :
        \/ /\ ShapeOf(doc[i]) \in RareShapes \cup TopRareShapes
           /\ ShapesInside(doc, doc[i].parent) # {TextItem}
        \/ /\ doc[i].parent = 0
           /\ \E j \in 1..(i - 1) :
                 doc[j].parent = 0 /\ ShapeOf(doc[j]) \in TopCoreShapes }

HasRare(doc) == RareItems(doc) # {}

-----------------------------------------------------------------------------
(* Tag reader: getNodeName, getAttributes.                                 *)

\* Object.keys(node).filter(...)
RECURSIVE FilterKeys(_)
FilterKeys(keys) ==
    IF keys = <<>> THEN <<>>
    ELSE IF ~StartsWith(Head(keys), "@_") /\ ~StartsWith(Head(keys), "#")
            /\ Head(keys) # ":@"
         THEN <<Head(keys)>> \o FilterKeys(Tail(keys))
         ELSE FilterKeys(Tail(keys))

getNodeName(node) ==
    LET keys == FilterKeys(node.keys)
    IN IF keys # <<>> /\ Head(keys) # "" THEN Head(keys) ELSE "unknown"

getAttributes(node) ==
    LET from == {k \in DOMAIN node.attrs : StartsWith(k, "@_")}
    IN [a \in {Substring(k, 2) : k \in from} |->
            node.attrs[CHOOSE k \in from : Substring(k, 2) = a]]

generateId(counter) == "node_" \o ToString(counter)

-----------------------------------------------------------------------------
(* Tree builder: parseNode.                                                *)
(* A tree under construction is st = [nodes, idCounter]: the XsdNode       *)
(* objects made so far, in creation order, and the id counter.  A node is  *)
(* referred to by its position in st.nodes (0: no node).  A node record    *)
(* holds the fields of XsdNode except documentation, which no property     *)
(* below reads, and "item", the position of the tokenizer item it was made *)
(* from (the object identity of the source item, not a field of XsdNode).  *)

\* const nameAttr = attributes['name'] || attributes['ref'] || ''
nameAttrOf(attributes) ==
    OrElse(OrElse(Get(attributes, "name"), Get(attributes, "ref")), "")

\* Variant: the path built from the unprefixed kind instead of the tag name.
buildXpathFromKind(parentXpath, nodeName, nameAttr) ==
    IF Truthy(nameAttr)
    THEN parentXpath \o "/" \o StripSchemaPrefix(nodeName)
             \o "[@name='" \o nameAttr \o "']"
    ELSE parentXpath \o "/" \o StripSchemaPrefix(nodeName)

\* Variant: the node without parent path keeps the empty path.
buildXpathRootEmpty(parentXpath, nodeName, nameAttr) ==
    IF parentXpath = "" THEN ""
    ELSE IF Truthy(nameAttr)
    THEN parentXpath \o "/" \o nodeName \o "[@name='" \o nameAttr \o "']"
    ELSE parentXpath \o "/" \o nodeName

\* Variant: the step carries the value the process-wide counter had when the
\* parse was called.
buildXpathCounted(parentXpath, nodeName, nameAttr) ==
    IF Truthy(nameAttr)
    THEN parentXpath \o "/" \o nodeName \o "[@name='" \o nameAttr \o "']"
             \o "[" \o ToString(idCounter) \o "]"
    ELSE parentXpath \o "/" \o nodeName \o "[" \o ToString(idCounter) \o "]"

\* "Build xpath"
buildXpath(parentXpath, nodeName, nameAttr) ==
    IF Truthy(nameAttr)
    THEN parentXpath \o "/" \o nodeName \o "[@name='" \o nameAttr \o "']"
    ELSE parentXpath \o "/" \o nodeName

\* Variant: a node without name and ref gets the empty name.
nameOrEmpty(nameAttr, nodeName) == nameAttr

\* name: nameAttr || nodeName.replace(/^xs:|^xsd:/, '')
nameOrKind(nameAttr, nodeName) == OrElse(nameAttr, StripSchemaPrefix(nodeName))

\* Variant: annotation elements are skipped like text and comments.
skipNodeAndAnnotation(nodeName) ==
    nodeName = "#text" \/ nodeName = "#comment" \/ nodeName = "unknown"
        \/ nodeName = "xs:annotation"

\* "Skip text nodes and comments"
skipNode(nodeName) ==
    nodeName = "#text" \/ nodeName = "#comment" \/ nodeName = "unknown"

RECURSIVE parseNode(_, _, _, _, _), parseChildren(_, _, _, _, _, _)

\* [node |-> position of the node made, or 0 for null, st |-> the tree after]
parseNode(doc, i, parentXpath, parent, st) ==
    LET nodeName == getNodeName(doc[i])
    IN IF skipNode(nodeName)
       THEN [node |-> 0, st |-> st]
       ELSE LET attributes == getAttributes(doc[i])
                nameAttr == nameAttrOf(attributes)
                xpath == buildXpath(parentXpath, nodeName, nameAttr)
                isRef == "ref" \in DOMAIN attributes
                refName == Get(attributes, "ref")
                self == Len(st.nodes) + 1
                xsdNode == [ id |-> generateId(st.idCounter),
                             name |-> nameOrKind(nameAttr, nodeName),
                             type |-> StripSchemaPrefix(nodeName),
                             xpath |-> xpath,
                             attributes |-> attributes,
                             children |-> <<>>,
                             parent |-> parent,
                             isRef |-> isRef,
                             refName |-> IF isRef THEN refName ELSE Undefined,
                             refTargetXpath |-> Undefined,
                             item |-> i ]
                made == [nodes |-> Append(st.nodes, xsdNode),
                         idCounter |-> st.idCounter + 1]
            IN [node |-> self,
                st |-> parseChildren(doc, Content(doc, i), 1, xpath, self, made)]

\* the loop "for (const childNode of nodeContent)"
parseChildren(doc, nodeContent, j, xpath, self, st) ==
    IF j > Len(nodeContent) THEN st
    ELSE LET r == parseNode(doc, nodeContent[j], xpath, self, st)
             pushed == IF r.node # 0
                       THEN [r.st EXCEPT !.nodes[self].children = Append(@, r.node)]
                       ELSE r.st
         IN parseChildren(doc, nodeContent, j + 1, xpath, self, pushed)

-----------------------------------------------------------------------------
(* Reference resolver: buildNameIndex, resolveRefs.                        *)

\* Variant: the type-qualified key keeps its first writer, like the bare key.
setTypedIfAbsent(index, key, n) ==
    IF key \in DOMAIN index THEN index ELSE MapSet(index, key, n)

\* index.set(key, node) under the type-qualified key
setTyped(index, key, n) == MapSet(index, key, n)

\* Variant: the bare key is overwritten by each later definition.
setBareAlways(index, name, n) == MapSet(index, name, n)

\* if (!index.has(name)) index.set(name, node)
setBare(index, name, n) ==
    IF name \notin DOMAIN index THEN MapSet(index, name, n) ELSE index

\* what buildNameIndex does for the node itself, before its children
indexNode(nodes, n, index) ==
    LET node == nodes[n]
        name == Get(node.attributes, "name")
        key == node.type \o ":" \o name
        typed == setTyped(index, key, n)
    IN IF Truthy(name) /\ ~node.isRef
       THEN setBare(typed, name, n)
       ELSE index

RECURSIVE buildNameIndex(_, _, _), buildNameIndexChildren(_, _, _, _)

\* the Map from key to node, after visiting node n and everything below it
buildNameIndex(nodes, n, index) ==
    buildNameIndexChildren(nodes, nodes[n].children, 1, indexNode(nodes, n, index))

buildNameIndexChildren(nodes, children, j, index) ==
    IF j > Len(children) THEN index
    ELSE buildNameIndexChildren(nodes, children, j + 1,
                                buildNameIndex(nodes, children[j], index))

\* refNameClean of resolveRefs
refNameClean(refName) ==
    IF IncludesColon(refName) THEN SplitColon(refName)[2] ELSE refName

\* the two lookups: the node found for a cleaned name, 0 when the index has
\* neither the type-qualified nor the bare key
lookupTarget(type, clean, nameIndex) ==
    LET typeKey == type \o ":" \o clean
    IN IF typeKey \in DOMAIN nameIndex THEN nameIndex[typeKey]
       ELSE IF clean \in DOMAIN nameIndex THEN nameIndex[clean]
       ELSE 0

\* Variant: a miss writes the empty string instead of leaving the field unset.
targetXpathOrEmpty(nodes, target) == IF target # 0 THEN nodes[target].xpath ELSE ""

\* "if (target) node.refTargetXpath = target.xpath": the field after the lookup
targetXpath(nodes, target) == IF target # 0 THEN nodes[target].xpath ELSE Undefined

\* Variant: every node is looked up under its name field, definitions too.
resolveNodeByName(nodes, n, nameIndex) ==
    LET node == nodes[n]
    IN IF Truthy(node.name)
       THEN [nodes EXCEPT ![n].refTargetXpath =
                targetXpath(nodes, lookupTarget(node.type, refNameClean(node.name),
                                                nameIndex))]
       ELSE nodes

\* what resolveRefs does for the node itself, before its children
resolveNode(nodes, n, nameIndex) ==
    LET node == nodes[n]
    IN IF node.isRef /\ Truthy(node.refName)
       THEN [nodes EXCEPT ![n].refTargetXpath =
                targetXpath(nodes, lookupTarget(node.type, refNameClean(node.refName),
                                                nameIndex))]
       ELSE nodes

RECURSIVE resolveRefs(_, _, _), resolveRefsChildren(_, _, _, _)

\* the nodes after resolving node n and everything below it
resolveRefs(nodes, n, nameIndex) ==
    resolveRefsChildren(resolveNode(nodes, n, nameIndex), nodes[n].children, 1, nameIndex)

resolveRefsChildren(nodes, children, j, nameIndex) ==
    IF j > Len(children) THEN nodes
    ELSE resolveRefsChildren(resolveRefs(nodes, children[j], nameIndex),
                             children, j + 1, nameIndex)

-----------------------------------------------------------------------------
(* Lookup helpers: flattenNodes, findNodeByXpath.                          *)

RECURSIVE flattenNodes(_, _), flattenChildren(_, _, _)

flattenNodes(nodes, n) == <<n>> \o flattenChildren(nodes, nodes[n].children, 1)

flattenChildren(nodes, children, j) ==
    IF j > Len(children) THEN <<>>
    ELSE flattenNodes(nodes, children[j]) \o flattenChildren(nodes, children, j + 1)

\* allNodes.find(n => n.xpath === xpath) || null, 0 for null
RECURSIVE FindFirst(_, _, _)
FindFirst(nodes, allNodes, xpath) ==
    IF allNodes = <<>> THEN 0
    ELSE IF nodes[Head(allNodes)].xpath = xpath THEN Head(allNodes)
    ELSE FindFirst(nodes, Tail(allNodes), xpath)

\* Variant: the scan covers the root and its children only.
findNodeByXpathShallow(nodes, root, xpath) ==
    FindFirst(nodes, <<root>> \o nodes[root].children, xpath)

findNodeByXpath(nodes, root, xpath) == FindFirst(nodes, flattenNodes(nodes, root), xpath)

-----------------------------------------------------------------------------
(* parseXsd.                                                               *)

\* What parser.parse(xsdContent) can do.  XMLParser does not validate: on
\* text that is not well-formed it either throws or returns the items it
\* read; on well-formed text it returns the items.
XMLParserParse(content) ==
    { [threw |-> FALSE, parsed |-> Content(content.doc, 0)] }
        \cup (IF content.wellFormed THEN {}
              ELSE { [threw |-> TRUE, parsed |-> <<>>] })

\* the loop "for (const node of parsed)": the first top-level schema element, or 0
RECURSIVE FindSchema(_, _, _)
FindSchema(doc, parsed, j) ==
    IF j > Len(parsed) THEN 0
    ELSE LET nodeName == getNodeName(doc[parsed[j]])
         IN IF nodeName = "xs:schema" \/ nodeName = "xsd:schema" THEN parsed[j]
            ELSE FindSchema(doc, parsed, j + 1)

\* Variant: one walk that registers and resolves each node as it meets it, so
\* a reference sees only the definitions before it.
RECURSIVE onePass(_, _, _), onePassChildren(_, _, _, _)
onePass(nodes, n, index) ==
    LET seen == indexNode(nodes, n, index)
    IN onePassChildren(resolveNode(nodes, n, seen), nodes[n].children, 1, seen)

onePassChildren(nodes, children, j, index) ==
    IF j > Len(children) THEN [nodes |-> nodes, index |-> index]
    ELSE LET r == onePass(nodes, children[j], index)
         IN onePassChildren(r.nodes, children, j + 1, r.index)

resolveTreeOnePass(nodes, root) == onePass(nodes, root, EmptyMap).nodes

\* "Index aufbauen und Refs aufloesen": the whole index, then the resolution
resolveTree(nodes, root) ==
    resolveRefs(nodes, root, buildNameIndex(nodes, root, EmptyMap))

\* Variant: the counter runs on from where the previous parse left it.
keepIdCounter(counter) == counter

\* "Reset ID counter": idCounter = 0
resetIdCounter(counter) == 0

\* the body of the try block after the reset, the counter standing at counter
parseXsdTry(doc, r, counter) ==
    IF r.threw THEN [outcome |-> "throws", nodes |-> <<>>, idCounter |-> counter]
    ELSE IF Len(r.parsed) = 0
    THEN [outcome |-> "null", nodes |-> <<>>, idCounter |-> counter]
    ELSE LET schema == FindSchema(doc, r.parsed, 1)
         IN IF schema = 0
            THEN [outcome |-> "null", nodes |-> <<>>, idCounter |-> counter]
            ELSE LET built == parseNode(doc, schema, "", 0,
                                        [nodes |-> <<>>, idCounter |-> counter])
                     root == built.node
                 IN IF root # 0
                    THEN [outcome |-> "root",
                          nodes |-> resolveTree(built.st.nodes, root),
                          idCounter |-> built.st.idCounter]
                    ELSE [outcome |-> "null", nodes |-> <<>>,
                          idCounter |-> built.st.idCounter]

\* catch (error) { console.error(...); return null; }
catchError(res) == IF res.outcome = "throws" THEN [res EXCEPT !.outcome = "null"] ELSE res

\* the root of a returned tree is the first node made
Root == 1

-----------------------------------------------------------------------------
(* Actions.                                                                *)

\* no determineSchemaRole call yet
NoRole == [filename |-> "", result |-> "none", fallback |-> FALSE]

\* no content written yet, no parseXsdDependencies call yet
NoText == [tags |-> <<>>, content |-> <<>>]
NotCalled == "not called"

\* the upload form as it is mounted: useState([]), nothing dropped, nothing rendered
NoEvent == [op |-> "none", filename |-> "", manual |-> FALSE]
NoUploadRole == [file |-> 0, result |-> "none"]
Mounted ==
    /\ picked = <<>>
    /\ fileList = <<>>
    /\ uploadedFiles = <<>>
    /\ uploadEvent = NoEvent
    /\ uploadRole = NoUploadRole

Init ==
    /\ xsdContent = [doc |-> <<>>, wellFormed |-> TRUE]
    /\ idCounter = 0
    /\ outcome = "pending"
    /\ tree = <<>>
    /\ history = <<>>
    /\ files = <<>>
    /\ role = NoRole
    /\ filesWithRoles = <<>>
    /\ schemaDependency = <<>>
    /\ dependencyText = NoText
    /\ dependencyList = NotCalled
    /\ Mounted

\* the schema text gains one more item, after everything it holds
AppendItem ==
    /\ outcome = "pending"
    /\ xsdContent.wellFormed
    /\ Len(xsdContent.doc) < MaxItems
    /\ \E parent \in OpenElements(xsdContent.doc, Len(xsdContent.doc)) :
       \E shape \in ShapesInside(xsdContent.doc, parent) :
          LET doc == Append(xsdContent.doc,
                            [keys |-> shape.keys, attrs |-> shape.attrs,
                             parent |-> parent])
          IN /\ Cardinality(RareItems(doc)) <= 1
             /\ HasRare(doc) => Len(doc) < MaxItems
             /\ xsdContent' = [xsdContent EXCEPT !.doc = doc]
    /\ UNCHANGED <<uploadVars, idCounter, outcome, tree, history, groupVars>>

\* the text stops being well-formed XML (a close tag is lost, say); explored
\* for texts without a rare shape and with fewer than MaxItems items
Corrupt ==
    /\ outcome = "pending"
    /\ xsdContent.wellFormed
    /\ ~HasRare(xsdContent.doc)
    /\ Len(xsdContent.doc) < MaxItems
    /\ xsdContent' = [xsdContent EXCEPT !.wellFormed = FALSE]
    /\ UNCHANGED <<uploadVars, idCounter, outcome, tree, history, groupVars>>

\* export function parseXsd(xsdContent)
parseXsd ==
    /\ outcome = "pending"
    /\ \E r \in XMLParserParse(xsdContent) :
          LET res == catchError(parseXsdTry(xsdContent.doc, r,
                                            resetIdCounter(idCounter)))
          IN /\ idCounter' = res.idCounter
             /\ outcome' = res.outcome
             /\ tree' = res.nodes
    /\ UNCHANGED <<uploadVars, xsdContent, history, groupVars>>

Next == AppendItem \/ Corrupt \/ parseXsd

Spec == Init /\ [][Next]_vars

-----------------------------------------------------------------------------
(* A long-lived process: parseXsd called again and again, on the same or   *)
(* on another text, the module-level idCounter living on between calls.    *)

\* parseXsd calls of one process
MaxCalls == 3

Item(shape, parent) == [keys |-> shape.keys, attrs |-> shape.attrs, parent |-> parent]

\* <xs:schema><xs:element name="A"/></xs:schema>
TextElement ==
    [doc |-> << Item(Elem("xs:schema", Attrs0), 0),
                Item(Elem("xs:element", AttrsName("A")), 1) >>,
     wellFormed |-> TRUE]

\* <xs:schema><xs:complexType name="A"><xs:sequence><xs:element ref="A"/>
\* </xs:sequence></xs:complexType><xs:element name="A"/></xs:schema>
TextNested ==
    [doc |-> << Item(Elem("xs:schema", Attrs0), 0),
                Item(Elem("xs:complexType", AttrsName("A")), 1),
                Item(Elem("xs:sequence", Attrs0), 2),
                Item(Elem("xs:element", AttrsRef("A")), 3),
                Item(Elem("xs:element", AttrsName("A")), 1) >>,
     wellFormed |-> TRUE]

\* <!-- --><xsd:schema>text<xsd:element name="A"/></xsd:schema>
TextCommentFirst ==
    [doc |-> << Item(CommentItem, 0),
                Item(Elem("xsd:schema", Attrs0), 0),
                Item(TextItem, 2),
                Item(Elem("xsd:element", AttrsName("A")), 2) >>,
     wellFormed |-> TRUE]

\* <schema><xs:element name="A"/></schema>: no schema root
TextNoSchema ==
    [doc |-> << Item(Elem("schema", Attrs0), 0),
                Item(Elem("xs:element", AttrsName("A")), 1) >>,
     wellFormed |-> TRUE]

\* <xs:schema><xs:element name="A"/><xs:sequence>: the close tags are lost
TextUnclosed ==
    [doc |-> << Item(Elem("xs:schema", Attrs0), 0),
                Item(Elem("xs:element", AttrsName("A")), 1),
                Item(Elem("xs:sequence", Attrs0), 1) >>,
     wellFormed |-> FALSE]

SampleTexts == {TextElement, TextNested, TextCommentFirst, TextNoSchema, TextUnclosed}

InitRepeated ==
    /\ xsdContent \in SampleTexts
    /\ idCounter = 0
    /\ outcome = "pending"
    /\ tree = <<>>
    /\ history = <<>>
    /\ files = <<>>
    /\ role = NoRole
    /\ filesWithRoles = <<>>
    /\ schemaDependency = <<>>
    /\ dependencyText = NoText
    /\ dependencyList = NotCalled
    /\ Mounted

\* the caller keeps the result and comes back with the next text
LoadText ==
    /\ outcome # "pending"
    /\ Len(history) + 1 < MaxCalls
    /\ history' = Append(history, [content |-> xsdContent, outcome |-> outcome,
                                   tree |-> tree])
    /\ xsdContent' \in SampleTexts
    /\ outcome' = "pending"
    /\ tree' = <<>>
    /\ UNCHANGED <<uploadVars, idCounter, groupVars>>

NextRepeated == parseXsd \/ LoadText

SpecRepeated == InitRepeated /\ [][NextRepeated]_vars

-----------------------------------------------------------------------------
(* Dependency extractor: backend/src/utils/xsd-dependency-parser.ts.       *)
(* A file's content is a sequence of characters; the two tag patterns and  *)
(* the attribute pattern are matched on it character by character, as the  *)
(* regular expressions of the code match them.  Attribute values, file     *)
(* names and the other short strings are TLA+ strings.                     *)

\* the characters of the string str, and the string of the characters cs
Chars(str) == [k \in 1..Len(str) |-> SubSeq(str, k, k)]
RECURSIVE Join(_)
Join(cs) == IF Len(cs) = 0 THEN "" ELSE Head(cs) \o Join(Tail(cs))

\* the character of s at position i (1-based), "" beyond the end
Char(s, i) == IF i >= 1 /\ i <= Len(s) THEN s[i] ELSE ""

\* \s
IsSpace(c) == c \in {" ", "\t", "\n", "\r"}

LowerOf ==
    ("A" :> "a") @@ ("B" :> "b") @@ ("C" :> "c") @@ ("D" :> "d") @@ ("E" :> "e")
    @@ ("F" :> "f") @@ ("G" :> "g") @@ ("H" :> "h") @@ ("I" :> "i") @@ ("J" :> "j")
    @@ ("K" :> "k") @@ ("L" :> "l") @@ ("M" :> "m") @@ ("N" :> "n") @@ ("O" :> "o")
    @@ ("P" :> "p") @@ ("Q" :> "q") @@ ("R" :> "r") @@ ("S" :> "s") @@ ("T" :> "t")
    @@ ("U" :> "u") @@ ("V" :> "v") @@ ("W" :> "w") @@ ("X" :> "x") @@ ("Y" :> "y")
    @@ ("Z" :> "z")

Lower(c) == IF c \in DOMAIN LowerOf THEN LowerOf[c] ELSE c

\* the flag "i": s holds the characters word at position i, letter case aside
EqualsIgnoreCase(s, i, word) ==
    \A k \in 1..Len(word) : Lower(Char(s, i + k - 1)) = Lower(word[k])

\* \s* from position i on: the position of the first character that is no space
RECURSIVE SkipSpaces(_, _)
SkipSpaces(s, i) == IF IsSpace(Char(s, i)) THEN SkipSpaces(s, i + 1) ELSE i

\* the position of the first character of s at or after i that is in set, 0 if none
IndexOfAny(s, i, set) ==
    LET at == { k \in i..Len(s) : Char(s, k) \in set }
    IN IF at = {} THEN 0 ELSE Smallest(at)

NoMatch == [found |-> FALSE, group |-> <<>>, lastIndex |-> 0]

\* /<(?:xs|xsd):WORD\s+([^>]*?)(?:\/>|>)/i tried at position i of s
tagRegexAt(s, i, word) ==
    IF Char(s, i) # "<" THEN NoMatch
    ELSE LET open == IF EqualsIgnoreCase(s, i, Chars("<xs:" \o word))
                     THEN Len("<xs:" \o word)
                     ELSE IF EqualsIgnoreCase(s, i, Chars("<xsd:" \o word))
                     THEN Len("<xsd:" \o word)
                     ELSE 0
         IN IF open = 0 \/ ~IsSpace(Char(s, i + open)) THEN NoMatch
            ELSE LET k == SkipSpaces(s, i + open)
                     g == IndexOfAny(s, k, {">"})
                 IN IF g = 0 THEN NoMatch
                    ELSE LET e == IF g - 1 >= k /\ Char(s, g - 1) = "/"
                                  THEN g - 2 ELSE g - 1
                         IN [found |-> TRUE, group |-> SubSeq(s, k, e),
                             lastIndex |-> g + 1]

\* regex.exec(xsdContent) of a "g" pattern whose lastIndex stands at i
tagRegexExec(s, i, word) ==
    LET at == { k \in i..Len(s) : Char(s, k) = "<" /\ tagRegexAt(s, k, word).found }
    IN IF at = {} THEN NoMatch ELSE tagRegexAt(s, Smallest(at), word)

\* what extractAttribute returns when the pattern does not match
Null == "<null>"

\* new RegExp(`${attributeName}\\s*=\\s*["']([^"']+)["']`, 'i') tried at i
attributeRegexAt(s, i, attributeName) ==
    IF ~EqualsIgnoreCase(s, i, Chars(attributeName)) THEN NoMatch
    ELSE LET eq == SkipSpaces(s, i + Len(attributeName))
         IN IF Char(s, eq) # "=" THEN NoMatch
            ELSE LET q == SkipSpaces(s, eq + 1)
                 IN IF Char(s, q) \notin {"\"", "'"} THEN NoMatch
                    ELSE LET close == IndexOfAny(s, q + 1, {"\"", "'"})
                         IN IF close = 0 \/ close = q + 1 THEN NoMatch
                            ELSE [found |-> TRUE,
                                  group |-> Join(SubSeq(s, q + 1, close - 1)),
                                  lastIndex |-> close + 1]

\* regex.exec(attributeString): the leftmost match
attributeRegexExec(s, i, attributeName) ==
    LET at == { k \in i..Len(s) :
                   /\ Lower(Char(s, k)) = Lower(SubSeq(attributeName, 1, 1))
                   /\ attributeRegexAt(s, k, attributeName).found }
    IN IF at = {} THEN NoMatch ELSE attributeRegexAt(s, Smallest(at), attributeName)

\* function extractAttribute(attributeString, attributeName): string | null
extractAttribute(attributeString, attributeName) ==
    LET match == attributeRegexExec(attributeString, 1, attributeName)
    IN IF match.found THEN match.group ELSE Null

\* if (schemaLocation) dependencies.push({ type: 'import', ... })
pushImport(dependencies, schemaLocation, namespace) ==
    IF Truthy(schemaLocation)
    THEN Append(dependencies,
                [type |-> "import", schemaLocation |-> schemaLocation,
                 namespace |-> OrElse(namespace, Undefined)])
    ELSE dependencies

\* if (schemaLocation) dependencies.push({ type: 'include', schemaLocation })
pushInclude(dependencies, schemaLocation) ==
    IF Truthy(schemaLocation)
    THEN Append(dependencies,
                [type |-> "include", schemaLocation |-> schemaLocation,
                 namespace |-> Undefined])
    ELSE dependencies

\* "Imports parsen": while ((match = importRegex.exec(xsdContent)) !== null)
RECURSIVE parseImports(_, _, _)
parseImports(xsdText, lastIndex, dependencies) ==
    LET match == tagRegexExec(xsdText, lastIndex, "import")
    IN IF ~match.found THEN dependencies
       ELSE parseImports(xsdText, match.lastIndex,
                         pushImport(dependencies,
                                    extractAttribute(match.group, "schemaLocation"),
                                    extractAttribute(match.group, "namespace")))

\* "Includes parsen": while ((match = includeRegex.exec(xsdContent)) !== null)
RECURSIVE parseIncludes(_, _, _)
parseIncludes(xsdText, lastIndex, dependencies) ==
    LET match == tagRegexExec(xsdText, lastIndex, "include")
    IN IF ~match.found THEN dependencies
       ELSE parseIncludes(xsdText, match.lastIndex,
                          pushInclude(dependencies,
                                      extractAttribute(match.group, "schemaLocation")))

\* Variant: one scan of the text, each dependency where its tag stands.
RECURSIVE scanInSourceOrder(_, _, _)
scanInSourceOrder(xsdText, lastIndex, dependencies) ==
    LET imp == tagRegexExec(xsdText, lastIndex, "import")
        inc == tagRegexExec(xsdText, lastIndex, "include")
    IN IF ~imp.found /\ ~inc.found THEN dependencies
       ELSE IF imp.found /\ (~inc.found \/ imp.lastIndex < inc.lastIndex)
       THEN scanInSourceOrder(xsdText, imp.lastIndex,
                pushImport(dependencies, extractAttribute(imp.group, "schemaLocation"),
                           extractAttribute(imp.group, "namespace")))
       ELSE scanInSourceOrder(xsdText, inc.lastIndex,
                pushInclude(dependencies, extractAttribute(inc.group, "schemaLocation")))

parseXsdDependenciesInSourceOrder(xsdText) == scanInSourceOrder(xsdText, 1, <<>>)

\* export function parseXsdDependencies(xsdContent): XsdDependency[]
parseXsdDependencies(xsdText) ==
    parseIncludes(xsdText, 1, parseImports(xsdText, 1, <<>>))

\* the position of the last "/" of the string s, 0 if there is none
LastSlash(s) ==
    LET at == { k \in 1..Len(s) : SubSeq(s, k, k) = "/" }
    IN IF at = {} THEN 0 ELSE Largest(at)

\* Variant: the schemaLocation value is taken whole.
extractFilenameWhole(schemaLocation) == schemaLocation

\* export function extractFilename(schemaLocation): the last of split('/')
extractFilename(schemaLocation) ==
    SubSeq(schemaLocation, LastSlash(schemaLocation) + 1, Len(schemaLocation))

-----------------------------------------------------------------------------
(* Role classifier: determineSchemaRole.                                   *)
(* parseXsdDependencies is a function of the content alone: the list it    *)
(* returns for a file is computed when the content is written and kept     *)
(* beside the content, in the field "dependencies" of the file.            *)

\* const deps = parseXsdDependencies(file.content)
dependenciesOf(file) == file.dependencies

\* "for (const dep of deps)" of the first scan: is some dependency named filename
RECURSIVE scanDependencies(_, _, _)
scanDependencies(deps, k, filename) ==
    IF k > Len(deps) THEN FALSE
    ELSE IF extractFilename(deps[k].schemaLocation) = filename THEN TRUE
    ELSE scanDependencies(deps, k + 1, filename)

\* Variant: the first scan ends at the first file named like the target.
RECURSIVE scanFilesUpToTarget(_, _, _, _)
scanFilesUpToTarget(filename, allFiles, j, flags) ==
    IF j > Len(allFiles) THEN flags
    ELSE IF allFiles[j].filename = filename
    THEN (IF Len(dependenciesOf(allFiles[j])) > 0
          THEN [flags EXCEPT !.referencesOthers = TRUE] ELSE flags)
    ELSE scanFilesUpToTarget(filename, allFiles, j + 1,
                   IF scanDependencies(dependenciesOf(allFiles[j]), 1, filename)
                   THEN [flags EXCEPT !.isReferenced = TRUE] ELSE flags)

\* "for (const file of allFiles)", first scan: [isReferenced, referencesOthers]
RECURSIVE scanFiles(_, _, _, _)
scanFiles(filename, allFiles, j, flags) ==
    IF j > Len(allFiles) THEN flags
    ELSE IF allFiles[j].filename = filename
    THEN scanFiles(filename, allFiles, j + 1,
                   IF Len(dependenciesOf(allFiles[j])) > 0
                   THEN [flags EXCEPT !.referencesOthers = TRUE] ELSE flags)
    ELSE scanFiles(filename, allFiles, j + 1,
                   IF scanDependencies(dependenciesOf(allFiles[j]), 1, filename)
                   THEN [flags EXCEPT !.isReferenced = TRUE] ELSE flags)

\* Variant: every matching dependency counts as an import.
RECURSIVE firstMatchingDependencyAsImport(_, _, _)
firstMatchingDependencyAsImport(deps, k, filename) ==
    IF k > Len(deps) THEN "none"
    ELSE IF extractFilename(deps[k].schemaLocation) = filename THEN "imported"
    ELSE firstMatchingDependencyAsImport(deps, k + 1, filename)

\* Variant: the second scan compares the schemaLocation value as written.
RECURSIVE firstMatchingDependencyByLocation(_, _, _)
firstMatchingDependencyByLocation(deps, k, filename) ==
    IF k > Len(deps) THEN "none"
    ELSE IF deps[k].schemaLocation = filename
    THEN (IF deps[k].type = "import" THEN "imported" ELSE "included")
    ELSE firstMatchingDependencyByLocation(deps, k + 1, filename)

\* "for (const dep of deps)" of the second scan: the role the first dependency
\* named filename gives, "none" when deps holds no such dependency
RECURSIVE firstMatchingDependency(_, _, _)
firstMatchingDependency(deps, k, filename) ==
    IF k > Len(deps) THEN "none"
    ELSE IF extractFilename(deps[k].schemaLocation) = filename
    THEN (IF deps[k].type = "import" THEN "imported" ELSE "included")
    ELSE firstMatchingDependency(deps, k + 1, filename)

\* Variant: the files are scanned from the last to the first.
RECURSIVE referencedRoleBackwards(_, _, _)
referencedRoleBackwards(filename, allFiles, j) ==
    LET i == Len(allFiles) + 1 - j
    IN IF j > Len(allFiles) THEN "included"
       ELSE LET found == IF allFiles[i].filename # filename
                         THEN firstMatchingDependency(dependenciesOf(allFiles[i]),
                                                      1, filename)
                         ELSE "none"
            IN IF found # "none" THEN found
               ELSE referencedRoleBackwards(filename, allFiles, j + 1)

\* the second "for (const file of allFiles)", from file j on: the role it
\* returns, "none" when it runs to the end of the list
RECURSIVE secondScan(_, _, _)
secondScan(filename, allFiles, j) ==
    IF j > Len(allFiles) THEN "none"
    ELSE LET found == IF allFiles[j].filename # filename
                      THEN firstMatchingDependency(dependenciesOf(allFiles[j]),
                                                   1, filename)
                      ELSE "none"
         IN IF found # "none" THEN found
            ELSE secondScan(filename, allFiles, j + 1)

\* "Bestimme ob import oder include": the second scan, then the fallback
referencedRole(filename, allFiles, j) ==
    LET found == secondScan(filename, allFiles, j)
    IN IF found # "none" THEN found ELSE "included"   \* Fallback

\* the call reaches "return 'included'; // Fallback"
reachesFallback(filename, allFiles) ==
    /\ scanFiles(filename, allFiles, 1,
                 [isReferenced |-> FALSE, referencesOthers |-> FALSE]).isReferenced
    /\ secondScan(filename, allFiles, 1) = "none"

\* Variant: a file that references others is master, referenced or not.
decideRoleMasterFirst(filename, allFiles, flags) ==
    IF flags.referencesOthers THEN "master"
    ELSE IF flags.isReferenced THEN referencedRole(filename, allFiles, 1)
    ELSE "standalone"

\* Variant: a file nobody references is master, with or without dependencies.
decideRoleUnreferencedMaster(filename, allFiles, flags) ==
    IF ~flags.isReferenced THEN "master"
    ELSE referencedRole(filename, allFiles, 1)

\* Variant: a file referenced through includes only can still be master.
decideRoleIncludedMaster(filename, allFiles, flags) ==
    IF flags.referencesOthers
       /\ (~flags.isReferenced \/ referencedRole(filename, allFiles, 1) = "included")
    THEN "master"
    ELSE IF flags.isReferenced THEN referencedRole(filename, allFiles, 1)
    ELSE "standalone"

\* Variant: a target that no file of the list is named like gets no role.
decideRoleListedOnly(filename, allFiles, flags) ==
    IF \A j \in DOMAIN allFiles : allFiles[j].filename # filename THEN Undefined
    ELSE IF flags.referencesOthers /\ ~flags.isReferenced THEN "master"
    ELSE IF flags.isReferenced THEN referencedRole(filename, allFiles, 1)
    ELSE "standalone"

\* if (referencesOthers && !isReferenced) ... else if (isReferenced) ... return
decideRole(filename, allFiles, flags) ==
    IF flags.referencesOthers /\ ~flags.isReferenced THEN "master"
    ELSE IF flags.isReferenced THEN referencedRole(filename, allFiles, 1)
    ELSE "standalone"

\* export function determineSchemaRole(filename, allFiles)
determineSchemaRole(filename, allFiles) ==
    decideRole(filename, allFiles,
               scanFiles(filename, allFiles, 1,
                         [isReferenced |-> FALSE, referencesOthers |-> FALSE]))

-----------------------------------------------------------------------------
(* Group creation: POST /api/schema-groups.                                *)

\* Variant: the files flagged as master are left out of the set the others
\* are classified against.
roleOfUploadAmongUnflagged(file, uploaded) ==
    IF file.isMaster THEN "master"
    ELSE determineSchemaRole(file.filename, SelectSeq(uploaded, LAMBDA f : ~f.isMaster))

\* role: file.isMaster ? 'master' : determineSchemaRole(file.filename, files)
roleOfUpload(file, uploaded) ==
    IF file.isMaster THEN "master"
    ELSE determineSchemaRole(file.filename, uploaded)

\* "Bestimme Rollen fuer jede Datei": files.map(file => ({ ...file, role }))
RECURSIVE withRoles(_, _)
withRoles(uploaded, i) ==
    IF i > Len(uploaded) THEN <<>>
    ELSE << [filename |-> uploaded[i].filename,
             role |-> roleOfUpload(uploaded[i], uploaded)] >>
             \o withRoles(uploaded, i + 1)

\* createdSchemas.find(s => s.filename === targetFilename): position, 0 if none
findSchema(created, targetFilename) ==
    LET at == { i \in DOMAIN created : created[i].filename = targetFilename }
    IN IF at = {} THEN 0 ELSE Smallest(at)

\* "for (const dep of deps)": the rows for the dependencies of schema i
RECURSIVE createDependencies(_, _, _, _, _)
createDependencies(created, i, deps, k, rows) ==
    IF k > Len(deps) THEN rows
    ELSE LET target == findSchema(created, extractFilename(deps[k].schemaLocation))
         IN createDependencies(created, i, deps, k + 1,
                IF target # 0
                THEN Append(rows, [sourceSchema |-> i, targetSchema |-> target,
                                   dependencyType |-> deps[k].type,
                                   namespace |-> deps[k].namespace,
                                   schemaLocation |-> deps[k].schemaLocation])
                ELSE rows)

\* "Abhaengigkeiten erstellen": for (const schema of createdSchemas)
RECURSIVE createAllDependencies(_, _, _)
createAllDependencies(created, i, rows) ==
    IF i > Len(created) THEN rows
    ELSE createAllDependencies(created, i + 1,
             createDependencies(created, i, dependenciesOf(created[i]), 1, rows))

-----------------------------------------------------------------------------
(* The texts and file lists explored.                                      *)

\* import/include declarations over all files of one list
MaxTags == 3

\* declarations of the one text handed to parseXsdDependencies
MaxDeclarations == 3

\* the files of a list are named, in this order
FileNames == <<"a.xsd", "b.xsd", "c.xsd">>
FileNameSet == { FileNames[i] : i \in DOMAIN FileNames }

\* a name no file of a list has
OtherName == "d.xsd"

Dep(type, schemaLocation, namespace) ==
    [type |-> type, schemaLocation |-> schemaLocation, namespace |-> namespace]

\* a piece of schema text and what it declares, read as XML: the import and
\* include elements in it that carry a schemaLocation attribute with a value
Tag(text, declares) == [text |-> text, declares |-> declares]

ImportTag(location) ==
    Tag("<xs:import namespace=\"urn:x\" schemaLocation=\"" \o location \o "\"/>",
        <<Dep("import", location, "urn:x")>>)
IncludeTag(location) ==
    Tag("<xs:include schemaLocation=\"" \o location \o "\"/>",
        <<Dep("include", location, Undefined)>>)

\* the declarations used freely by the file named filename: an import or an
\* include of another file of the list
CoreTags(filename) ==
    { ImportTag(t) : t \in FileNameSet \ {filename} }
        \cup { IncludeTag(t) : t \in FileNameSet \ {filename} }

PathTag ==
    Tag("<xsd:include schemaLocation='dir/b.xsd'></xsd:include>",
        <<Dep("include", "dir/b.xsd", Undefined)>>)
ElementTag == Tag("<xs:element name=\"A\"/>", <<>>)

\* schemaLocation values that are more than a bare file name
UrlTag == ImportTag("http://h/x/c.xsd")
QueryTag == IncludeTag("b.xsd?v=1")
FolderTag == IncludeTag("dir/")

\* declarations and other text of which a file list holds at most one
RareTags(filename) ==
    { ImportTag(filename), ImportTag(OtherName), PathTag, ElementTag,
      UrlTag, QueryTag, FolderTag }

\* the pieces of the one text handed to parseXsdDependencies: used freely ...
CoreDeclarations ==
    { ImportTag("b.xsd"), ImportTag("other.xsd"), IncludeTag("b.xsd"), IncludeTag("c.xsd") }

\* ... and at most one of these
RareDeclarations ==
    { PathTag,
      ElementTag,
      Tag("<xs:import namespace=\"urn:x\"/>", <<>>),
      Tag("<xs:import schemaLocation=\"b.xsd\"/>", <<Dep("import", "b.xsd", Undefined)>>),
      Tag("<xs:include\n    SchemaLocation = \"a.xsd\" />",
          <<Dep("include", "a.xsd", Undefined)>>),
      Tag("<xs:include schemaLocation=\"\"/>", <<>>),
      Tag("<xs:import/>", <<>>),
      Tag("<!-- <xs:include schemaLocation=\"b.xsd\"/> -->", <<>>),
      Tag("<xs:import namespace=\"a>b\" schemaLocation=\"b.xsd\"/>",
          <<Dep("import", "b.xsd", "a>b")>>) }

SchemaOpen == "<xs:schema>"
SchemaClose == "</xs:schema>"

\* the text of a schema holding the pieces tags, in this order
RECURSIVE Concat(_)
Concat(tags) ==
    IF tags = <<>> THEN <<>> ELSE Chars(Head(tags).text) \o Concat(Tail(tags))
SchemaText(tags) == Chars(SchemaOpen) \o Concat(tags) \o Chars(SchemaClose)

\* a file of the list; tags: the pieces its content was written from,
\* dependencies: what parseXsdDependencies returns for its content
File(filename, tags) ==
    [filename |-> filename, content |-> SchemaText(tags), isMaster |-> FALSE,
     tags |-> tags, dependencies |-> parseXsdDependencies(SchemaText(tags))]

\* the outline of a list: the names of its files and the pieces of each
Outline(list) == [i \in DOMAIN list |-> [filename |-> list[i].filename,
                                          tags |-> list[i].tags]]

RECURSIVE TagCount(_)
TagCount(list) == IF list = <<>> THEN 0 ELSE Len(Head(list).tags) + TagCount(Tail(list))

\* the rare things of a list: rare declarations, and files named like an
\* earlier file of the list
RareCount(list) ==
    Cardinality({ <<i, k>> \in (DOMAIN list) \X (1..MaxTags) :
                    /\ k <= Len(list[i].tags)
                    /\ list[i].tags[k] \notin CoreTags(list[i].filename) })
        + Cardinality({ i \in DOMAIN list : list[i].filename # FileNames[i] })

Admitted(list) ==
    /\ TagCount(list) <= MaxTags
    /\ RareCount(list) <= 1
    /\ RareCount(list) = 1 => TagCount(list) < MaxTags

-----------------------------------------------------------------------------
(* The dependency extractor called on one text.                            *)

InitExtract ==
    /\ xsdContent = [doc |-> <<>>, wellFormed |-> TRUE]
    /\ idCounter = 0
    /\ outcome = "pending"
    /\ tree = <<>>
    /\ history = <<>>
    /\ files = <<>>
    /\ role = NoRole
    /\ filesWithRoles = <<>>
    /\ schemaDependency = <<>>
    /\ dependencyText = [tags |-> <<>>, content |-> SchemaText(<<>>)]
    /\ dependencyList = NotCalled
    /\ Mounted

\* the text gains one more piece
WriteDeclaration ==
    /\ dependencyList = NotCalled
    /\ Len(dependencyText.tags) < MaxDeclarations
    /\ \E tag \in CoreDeclarations \cup RareDeclarations :
          LET tags == Append(dependencyText.tags, tag)
          IN /\ Cardinality({ k \in DOMAIN tags : tags[k] \in RareDeclarations }) <= 1
             /\ dependencyText' = [tags |-> tags, content |-> SchemaText(tags)]
    /\ UNCHANGED <<uploadVars, xsdVars, history, files, role, filesWithRoles, schemaDependency,
                   dependencyList>>

\* a call parseXsdDependencies(xsdContent)
parseXsdDependenciesCall ==
    /\ dependencyList = NotCalled
    /\ dependencyList' = parseXsdDependencies(dependencyText.content)
    /\ UNCHANGED <<uploadVars, xsdVars, history, files, role, filesWithRoles, schemaDependency,
                   dependencyText>>

NextExtract == WriteDeclaration \/ parseXsdDependenciesCall

SpecExtract == InitExtract /\ [][NextExtract]_vars

-----------------------------------------------------------------------------
(* Role classification and group creation on a file list.                  *)

InitGroup ==
    /\ xsdContent = [doc |-> <<>>, wellFormed |-> TRUE]
    /\ idCounter = 0
    /\ outcome = "pending"
    /\ tree = <<>>
    /\ history = <<>>
    /\ files = <<>>
    /\ role = NoRole
    /\ filesWithRoles = <<>>
    /\ schemaDependency = <<>>
    /\ dependencyText = NoText
    /\ dependencyList = NotCalled
    /\ Mounted

Idle == role = NoRole /\ filesWithRoles = <<>>

\* the uploader adds a file to the list
AddFile ==
    /\ Idle
    /\ Len(files) < Len(FileNames)
    /\ \E filename \in {FileNames[Len(files) + 1]}
                          \cup { files[i].filename : i \in DOMAIN files } :
          /\ Admitted(Append(Outline(files), [filename |-> filename, tags |-> <<>>]))
          /\ files' = Append(files, File(filename, <<>>))
    /\ UNCHANGED <<uploadVars, xsdVars, history, role, filesWithRoles, schemaDependency,
                   dependencyText, dependencyList>>

\* the file added last gains one more piece of text
AddTag ==
    /\ Idle
    /\ Len(files) > 0
    /\ LET last == files[Len(files)]
       IN \E tag \in CoreTags(last.filename) \cup RareTags(last.filename) :
             /\ Admitted([Outline(files) EXCEPT ![Len(files)].tags = Append(@, tag)])
             /\ files' = [files EXCEPT ![Len(files)] =
                              File(last.filename, Append(last.tags, tag))]
    /\ UNCHANGED <<uploadVars, xsdVars, history, role, filesWithRoles, schemaDependency,
                   dependencyText, dependencyList>>

\* a call determineSchemaRole(filename, files)
determineSchemaRoleCall ==
    /\ Idle
    /\ \E filename \in FileNameSet \cup {OtherName} :
          role' = [filename |-> filename,
                   result |-> determineSchemaRole(filename, files),
                   fallback |-> reachesFallback(filename, files)]
    /\ UNCHANGED <<uploadVars, xsdVars, history, files, filesWithRoles, schemaDependency,
                   dependencyText, dependencyList>>

\* router.post('/'): the request carries the list, some files flagged as
\* master.  A request without files is answered 400 and records nothing; the
\* group row and the name/version check are left to the store.
createGroup ==
    /\ Idle
    /\ Len(files) > 0
    /\ \E flagged \in SUBSET (DOMAIN files) :
          LET uploaded == [i \in DOMAIN files |->
                              [files[i] EXCEPT !.isMaster = (i \in flagged)]]
          IN /\ files' = uploaded
             /\ filesWithRoles' = withRoles(uploaded, 1)
             /\ schemaDependency' = createAllDependencies(uploaded, 1, <<>>)
    /\ UNCHANGED <<uploadVars, xsdVars, history, role, dependencyText, dependencyList>>

NextGroup == AddFile \/ AddTag \/ determineSchemaRoleCall \/ createGroup

SpecGroup == InitGroup /\ [][NextGroup]_vars

-----------------------------------------------------------------------------
(* Upload form: frontend/src/components/SchemaGroupUpload.tsx.             *)
(* extractDependencies is a function of the content alone: like the        *)
(* backend's list, the list it returns for a file is computed when the     *)
(* content is written and kept beside it, in the field "extracted".        *)

\* the length of the <xs:import, <xsd:import, <xs:include or <xsd:include
\* that stands at position i of s, letter case aside; 0 if none does
openingAt(s, i) ==
    LET opens == { o \in {"<xs:import", "<xsd:import", "<xs:include", "<xsd:include"} :
                      EqualsIgnoreCase(s, i, Chars(o)) }
    IN IF opens = {} THEN 0 ELSE Len(CHOOSE o \in opens : TRUE)

\* the positions of the tag opened at i where schemaLocation = "value" can
\* stand: after the first white space, with no ">" before them
locationsAt(s, i) ==
    LET w == i + openingAt(s, i)
        g == IndexOfAny(s, w, {">"})
    IN { p \in (w + 1)..(IF g = 0 THEN Len(s) ELSE g - 1) :
           /\ Lower(Char(s, p)) = "s"
           /\ attributeRegexAt(s, p, "schemaLocation").found }

\* /<(?:xs|xsd):(?:import|include)\s+[^>]*schemaLocation\s*=\s*["']([^"']+)["']/i
\* tried at position i of s; the greedy [^>]* ends at the last place from
\* which the rest of the pattern matches
locationRegexAt(s, i) ==
    IF Char(s, i) # "<" \/ openingAt(s, i) = 0
          \/ ~IsSpace(Char(s, i + openingAt(s, i))) \/ locationsAt(s, i) = {}
    THEN NoMatch
    ELSE attributeRegexAt(s, Largest(locationsAt(s, i)), "schemaLocation")

\* importRegex.exec(content) of the "g" pattern whose lastIndex stands at i
locationRegexExec(s, i) ==
    LET at == { k \in i..Len(s) : Char(s, k) = "<" /\ locationRegexAt(s, k).found }
    IN IF at = {} THEN NoMatch ELSE locationRegexAt(s, Smallest(at))

\* schemaLocation.split('/').pop()
splitPop(schemaLocation) ==
    SubSeq(schemaLocation, LastSlash(schemaLocation) + 1, Len(schemaLocation))

\* while ((match = importRegex.exec(content)) !== null) { ... deps.push(filename) }
RECURSIVE extractLoop(_, _, _)
extractLoop(content, lastIndex, deps) ==
    LET match == locationRegexExec(content, lastIndex)
    IN IF ~match.found THEN deps
       ELSE extractLoop(content, match.lastIndex,
                        Append(deps, OrElse(splitPop(match.group), match.group)))

\* function extractDependencies(content): string[]
extractDependencies(content) == extractLoop(content, 1, <<>>)

\* const dependencies = extractDependencies(content)
extractedOf(file) == file.extracted

\* f.dependencies.includes(filename)
includes(dependencies, filename) ==
    \E k \in DOMAIN dependencies : dependencies[k] = filename

\* function determineRole(file, allFiles)
determineRole(file, allFiles) ==
    LET isReferenced == \E j \in DOMAIN allFiles :
                            /\ allFiles[j].filename # file.filename
                            /\ includes(allFiles[j].dependencies, file.filename)
        hasReferences == Len(file.dependencies) > 0
    IN IF hasReferences /\ ~isReferenced THEN "master"
       ELSE IF isReferenced THEN "imported"
       ELSE "standalone"

\* "Auto-detect master": updated.map(f => ({ ...f, isMaster: ... === 'master' }))
detectMaster(updated) ==
    [i \in DOMAIN updated |->
        [updated[i] EXCEPT !.isMaster = (determineRole(updated[i], updated) = "master")]]

\* file.name.toLowerCase().endsWith(ending)
endsWithLower(name, ending) ==
    /\ Len(name) >= Len(ending)
    /\ \A k \in 1..Len(ending) :
          Lower(SubSeq(name, Len(name) - Len(ending) + k, Len(name) - Len(ending) + k))
              = SubSeq(ending, k, k)

\* the files handleFiles does not skip
accepted(file) == endsWithLower(file.name, ".xsd") \/ endsWithLower(file.name, ".xml")

\* newFiles.push({ filename, content, size, isMaster: false, dependencies });
\* "parsed" keeps what the backend's extractor returns for the content
UploadedFile(file) ==
    [filename |-> file.name, content |-> file.text, isMaster |-> FALSE,
     dependencies |-> extractedOf(file), tags |-> file.tags, parsed |-> file.parsed]

RECURSIVE readFiles(_, _)
readFiles(list, i) ==
    IF i > Len(list) THEN <<>>
    ELSE (IF accepted(list[i]) THEN <<UploadedFile(list[i])>> ELSE <<>>)
             \o readFiles(list, i + 1)

\* prev.filter(f => f.filename !== filename)
RECURSIVE filterOut(_, _)
filterOut(prev, filename) ==
    IF prev = <<>> THEN <<>>
    ELSE (IF Head(prev).filename # filename THEN <<Head(prev)>> ELSE <<>>)
             \o filterOut(Tail(prev), filename)

\* prev.map(f => ({ ...f, isMaster: f.filename === filename ? !f.isMaster : false }))
toggle(prev, filename) ==
    [i \in DOMAIN prev |->
        [prev[i] EXCEPT !.isMaster =
            IF prev[i].filename = filename THEN ~prev[i].isMaster ELSE FALSE]]

-----------------------------------------------------------------------------
(* The upload form in use.                                                 *)

\* import/include declarations over the files dropped and listed
MaxUploadTags == 2

\* a file the form skips
SkippedName == "notes.txt"

\* two schemaLocation attributes in one tag; a ">" inside the location
XsiTag ==
    Tag("<xs:import schemaLocation=\"b.xsd\" xsi:schemaLocation=\"urn:x c.xsd\"/>",
        <<Dep("import", "b.xsd", Undefined)>>)
GtTag ==
    Tag("<xs:include schemaLocation=\"v>1/b.xsd\"/>",
        <<Dep("include", "v>1/b.xsd", Undefined)>>)
CommentedTag == Tag("<!-- <xs:include schemaLocation=\"b.xsd\"/> -->", <<>>)

\* declarations and other text of which the files of the form hold at most one
UploadRareTags(filename) ==
    { ImportTag(filename), PathTag, FolderTag, ElementTag, XsiTag, GtTag, CommentedTag }

\* a File of the FileList; tags: the pieces its text was written from
DroppedFile(name, tags) ==
    [name |-> name, text |-> SchemaText(tags), tags |-> tags,
     extracted |-> extractDependencies(SchemaText(tags)),
     parsed |-> parseXsdDependencies(SchemaText(tags))]

\* the rare things of an outline: rare declarations, skipped files, and files
\* named like an earlier one
UploadRareCount(list) ==
    Cardinality({ <<i, k>> \in (DOMAIN list) \X (1..MaxUploadTags) :
                    /\ k <= Len(list[i].tags)
                    /\ list[i].tags[k] \notin CoreTags(list[i].filename) })
        + Cardinality({ i \in DOMAIN list :
                          \/ list[i].filename = SkippedName
                          \/ \E h \in 1..(i - 1) : list[h].filename = list[i].filename })

UploadAdmitted(list) ==
    /\ Len(list) <= Len(FileNames)
    /\ TagCount(list) <= MaxUploadTags
    /\ UploadRareCount(list) <= 1
    /\ UploadRareCount(list) = 1 => TagCount(list) < MaxUploadTags

InitUpload ==
    /\ xsdContent = [doc |-> <<>>, wellFormed |-> TRUE]
    /\ idCounter = 0
    /\ outcome = "pending"
    /\ tree = <<>>
    /\ history = <<>>
    /\ files = <<>>
    /\ role = NoRole
    /\ filesWithRoles = <<>>
    /\ schemaDependency = <<>>
    /\ dependencyText = NoText
    /\ dependencyList = NotCalled
    /\ Mounted

NotRendering == uploadRole = NoUploadRole

\* the user picks one more file for the next drop: one with a new name, one
\* named like a file picked before, or one the form skips
ChooseFile ==
    /\ NotRendering
    /\ Len(picked) < Len(FileNames)
    /\ \E name \in {FileNames[Len(picked) + 1], SkippedName}
                      \cup { picked[i].filename : i \in DOMAIN picked } :
          /\ UploadAdmitted(Append(picked, [filename |-> name, tags |-> <<>>]))
          /\ picked' = Append(picked, [filename |-> name, tags |-> <<>>])
          /\ fileList' = Append(fileList, DroppedFile(name, <<>>))
    /\ UNCHANGED <<xsdVars, history, groupVars, uploadedFiles, uploadEvent, uploadRole>>

\* the file picked last holds one more piece of text
WriteTag ==
    /\ NotRendering
    /\ Len(fileList) > 0
    /\ LET last == fileList[Len(fileList)]
       IN \E tag \in CoreTags(last.name) \cup UploadRareTags(last.name) :
             /\ UploadAdmitted([picked EXCEPT ![Len(picked)].tags = Append(@, tag)])
             /\ picked' = [picked EXCEPT ![Len(picked)].tags = Append(@, tag)]
             /\ fileList' = [fileList EXCEPT ![Len(fileList)] =
                                 DroppedFile(last.name, Append(last.tags, tag))]
    /\ UNCHANGED <<xsdVars, history, groupVars, uploadedFiles, uploadEvent, uploadRole>>

\* handleFiles(fileList): the drop is read; if anything of it is kept, the
\* list grows and every flag is computed anew.  The group name filled in
\* from the first file is not part of the list and is left out.
handleFiles ==
    /\ NotRendering
    /\ Len(fileList) > 0
    /\ IF \E i \in DOMAIN fileList : accepted(fileList[i])
       THEN /\ uploadedFiles' = detectMaster(uploadedFiles \o readFiles(fileList, 1))
            /\ uploadEvent' = [op |-> "handleFiles", filename |-> "", manual |-> FALSE]
       ELSE /\ uploadedFiles' = uploadedFiles
            /\ uploadEvent' = [op |-> "handleFiles", filename |-> "",
                               manual |-> uploadEvent.manual]
    /\ fileList' = <<>>
    /\ uploadRole' = NoUploadRole
    /\ UNCHANGED <<xsdVars, history, groupVars, picked>>

\* removeFile(filename), from the button of a listed file
removeFile ==
    /\ NotRendering
    /\ fileList = <<>>
    /\ \E i \in DOMAIN uploadedFiles :
          /\ uploadedFiles' = filterOut(uploadedFiles, uploadedFiles[i].filename)
          /\ uploadEvent' = [op |-> "removeFile", filename |-> uploadedFiles[i].filename,
                             manual |-> uploadEvent.manual]
    /\ uploadRole' = NoUploadRole
    /\ UNCHANGED <<xsdVars, history, groupVars, picked, fileList>>

\* toggleMaster(filename), from the button of a listed file
toggleMaster ==
    /\ NotRendering
    /\ fileList = <<>>
    /\ \E i \in DOMAIN uploadedFiles :
          /\ uploadedFiles' = toggle(uploadedFiles, uploadedFiles[i].filename)
          /\ uploadEvent' = [op |-> "toggleMaster", filename |-> uploadedFiles[i].filename,
                             manual |-> TRUE]
    /\ uploadRole' = NoUploadRole
    /\ UNCHANGED <<xsdVars, history, groupVars, picked, fileList>>

\* determineRole(file, files), as getRoleLabel and getRoleBadgeColor call it
\* for a listed file
determineRoleCall ==
    /\ NotRendering
    /\ fileList = <<>>
    /\ \E i \in DOMAIN uploadedFiles :
          uploadRole' = [file |-> i,
                         result |-> determineRole(uploadedFiles[i], uploadedFiles)]
    /\ UNCHANGED <<xsdVars, history, groupVars, picked, fileList, uploadedFiles, uploadEvent>>

NextUpload ==
    ChooseFile \/ WriteTag \/ handleFiles \/ removeFile \/ toggleMaster
        \/ determineRoleCall

SpecUpload == InitUpload /\ [][NextUpload]_vars

-----------------------------------------------------------------------------
(* Vocabulary of the properties.                                           *)

Returned == outcome = "root"
Nodes == 1..Len(tree)
HasAttr(n, a) == a \in DOMAIN tree[n].attributes

\* the tag of node n as the schema text writes it
TagOf(n) == Head(xsdContent.doc[tree[n].item].keys)

\* the path of n's parent, the empty string for a node without parent
ParentXpath(n) == IF tree[n].parent = 0 THEN "" ELSE tree[tree[n].parent].xpath

NamePredicate(v) == "[@name='" \o v \o "']"

\* n and everything above it
RECURSIVE AncestorsOrSelf(_)
AncestorsOrSelf(n) ==
    {n} \cup (IF tree[n].parent = 0 THEN {} ELSE AncestorsOrSelf(tree[n].parent))

\* a name with a leading "prefix:" removed: everything after the first colon
RECURSIVE DropThroughColon(_)
DropThroughColon(s) == IF Head(s) = ":" THEN Tail(s) ELSE DropThroughColon(Tail(s))
AfterFirstColon(s) == IF IncludesColon(s) THEN DropThroughColon(s) ELSE s

\* a node that refers: ref attribute with a non-empty value
IsLiveRef(n) == tree[n].isRef /\ Truthy(tree[n].refName)

\* a node that can be referred to: non-empty name attribute, no ref attribute
IsDefinition(n) == ~tree[n].isRef /\ Truthy(Get(tree[n].attributes, "name"))

\* the first top-level schema element of the text, 0 when there is none
FirstSchemaItem ==
    LET tops == { i \in 1..Len(xsdContent.doc) :
                    /\ xsdContent.doc[i].parent = 0
                    /\ Head(xsdContent.doc[i].keys) \in {"xs:schema", "xsd:schema"} }
    IN IF tops = {} THEN 0 ELSE Smallest(tops)

-----------------------------------------------------------------------------
(* C1 - paths.                                                             *)

\* C1 as stated: every node's path is its parent's path, "/", the node's kind
\* (tag without xs:/xsd:), and [@name='V'] exactly when the node has a name or
\* ref attribute, V being name if present, else ref.
C1_PathUsesKind ==
    Returned =>
        \A n \in Nodes :
            tree[n].xpath =
                ParentXpath(n) \o "/" \o tree[n].type
                    \o (IF HasAttr(n, "name") THEN NamePredicate(tree[n].attributes["name"])
                        ELSE IF HasAttr(n, "ref")
                             THEN NamePredicate(tree[n].attributes["ref"])
                        ELSE "")

\* C1 amended: every node's path is its parent's path (empty for the root),
\* "/", the tag name as written with its xs:/xsd: prefix, and [@name='V']
\* exactly when name or ref is non-empty, V being name if non-empty, else ref.
C1_PathUsesTagName ==
    Returned =>
        \A n \in Nodes :
            LET name == Get(tree[n].attributes, "name")
                ref == Get(tree[n].attributes, "ref")
            IN tree[n].xpath =
                   ParentXpath(n) \o "/" \o TagOf(n)
                       \o (IF Truthy(name) THEN NamePredicate(name)
                           ELSE IF Truthy(ref) THEN NamePredicate(ref)
                           ELSE "")

\* an element inside a sequence inside a complexType inside the root
C1_Witness ==
    /\ Returned
    /\ \E n \in Nodes :
          tree[n].xpath =
              "/xs:schema/xs:complexType[@name='A']/xs:sequence/xs:element[@name='A']"

-----------------------------------------------------------------------------
(* C2 - the root's path.                                                   *)

\* C2 as stated: the root of a returned tree has the empty string as path.
C2_RootPathEmpty == Returned => tree[Root].xpath = ""

\* C2 amended: the root's path is "/" followed by the root's tag name as
\* written (/xs:schema or /xsd:schema), i.e. the path rule applied to an empty
\* parent path.
C2_RootPathIsSlashTag ==
    Returned =>
        /\ tree[Root].parent = 0
        /\ tree[Root].item = FirstSchemaItem
        /\ tree[Root].xpath =
               "/" \o TagOf(Root)
                   \o (IF Truthy(nameAttrOf(tree[Root].attributes))
                       THEN NamePredicate(nameAttrOf(tree[Root].attributes)) ELSE "")
        /\ tree[Root].xpath \in {"/xs:schema", "/xsd:schema"}

C2_Witness == Returned /\ Len(tree) > 1 /\ tree[Root].xpath = "/xsd:schema"

-----------------------------------------------------------------------------
(* C3 - uniqueness of paths.                                               *)

\* siblings of one kind that both lack a name and a ref attribute
AnonymousTwins(a, b) ==
    /\ a # b
    /\ tree[a].parent = tree[b].parent
    /\ tree[a].type = tree[b].type
    /\ \A x \in {a, b} : ~HasAttr(x, "name") /\ ~HasAttr(x, "ref")

\* C3 as stated: two distinct nodes of a returned tree have different paths,
\* unless they are anonymous same-kind siblings or descend from such siblings.
C3_PathsUniqueButAnonymousTwins ==
    Returned =>
        \A m, n \in Nodes :
            m # n /\ tree[m].xpath = tree[n].xpath =>
                \E a \in AncestorsOrSelf(m), b \in AncestorsOrSelf(n) :
                    AnonymousTwins(a, b)

-----------------------------------------------------------------------------
(* C4 - lookup by path.                                                    *)

\* a node with a name attribute and no ref attribute
NamedNoRef(n) == HasAttr(n, "name") /\ ~HasAttr(n, "ref")

\* C4 as stated: looking up the path of a node with a name and no ref
\* attribute returns that very node.
C4_LookupReturnsTheNode ==
    Returned =>
        \A n \in Nodes :
            NamedNoRef(n) => findNodeByXpath(tree, Root, tree[n].xpath) = n

\* C4 amended: the lookup never returns null for such a node's path; it
\* returns the first node in document order that has this path, which is the
\* node itself exactly when no earlier node shares its path.
C4_LookupReturnsFirstWithPath ==
    Returned =>
        \A n \in Nodes :
            NamedNoRef(n) =>
                LET found == findNodeByXpath(tree, Root, tree[n].xpath)
                    same == { m \in Nodes : tree[m].xpath = tree[n].xpath }
                IN /\ found # 0
                   /\ found = Smallest(same)
                   /\ (found = n) = (\A m \in 1..(n - 1) : tree[m].xpath # tree[n].xpath)

\* one named node deep in the tree that the lookup finds, and another whose
\* path leads to an earlier node
C4_Witness ==
    /\ Returned
    /\ \E n, m \in Nodes :
          /\ NamedNoRef(n) /\ NamedNoRef(m)
          /\ tree[n].parent # Root /\ tree[n].parent # 0
          /\ findNodeByXpath(tree, Root, tree[n].xpath) = n
          /\ findNodeByXpath(tree, Root, tree[m].xpath) \notin {0, m}

-----------------------------------------------------------------------------
(* C5 - a reference and its definition.                                    *)

\* C5 as stated: a ref node whose stripped reference name equals the name of
\* a non-reference node of the same kind resolves to that node's path.
C5_RefResolvesToEveryMatch ==
    Returned =>
        \A r, d \in Nodes :
            /\ tree[r].isRef
            /\ ~tree[d].isRef /\ HasAttr(d, "name")
            /\ tree[d].type = tree[r].type
            /\ AfterFirstColon(tree[r].refName) = tree[d].attributes["name"]
            => tree[r].refTargetXpath = tree[d].xpath

\* the definitions registered under the type-qualified key a reference asks for
TypedMatches(r) ==
    { d \in Nodes :
        /\ IsDefinition(d)
        /\ tree[d].type \o ":" \o tree[d].attributes["name"]
               = tree[r].type \o ":" \o refNameClean(tree[r].refName) }

\* C5 amended: a ref node with a non-empty reference name, stripped as
\* resolveRefs strips it, resolves to the path of the LAST definition in
\* document order registered under its type-qualified key, i.e. of the last
\* same-kind, same-name, non-reference node with a non-empty name.
C5_RefResolvesToLastMatch ==
    Returned =>
        \A r \in Nodes :
            IsLiveRef(r) /\ TypedMatches(r) # {} =>
                tree[r].refTargetXpath = tree[Largest(TypedMatches(r))].xpath

\* a reference with two same-kind definitions of different paths, resolved
C5_Witness ==
    /\ Returned
    /\ \E r \in Nodes :
          /\ IsLiveRef(r)
          /\ \E d, e \in TypedMatches(r) : tree[d].xpath # tree[e].xpath
          /\ tree[r].refTargetXpath # Undefined

-----------------------------------------------------------------------------
(* C6 - forward references.                                                *)

\* C6: resolution does not depend on where the reference stands.  A ref node
\* followed in document order by a matching definition is resolved to a
\* matching definition, and two ref nodes of one kind and reference name get
\* the same target whether they stand before or after the definition.
C6_ForwardRefsResolved ==
    Returned =>
        \A r \in Nodes :
            IsLiveRef(r) =>
                /\ (\E d \in TypedMatches(r) : d > r) =>
                       \E d \in TypedMatches(r) : tree[r].refTargetXpath = tree[d].xpath
                /\ \A q \in Nodes :
                       /\ IsLiveRef(q)
                       /\ tree[q].type = tree[r].type
                       /\ tree[q].refName = tree[r].refName
                       => tree[q].refTargetXpath = tree[r].refTargetXpath

\* a reference before its only definition and the same reference after it
C6_Witness ==
    /\ Returned
    /\ \E r, d, q \in Nodes :
          /\ r < d /\ d < q
          /\ IsLiveRef(r) /\ IsLiveRef(q)
          /\ tree[q].refName = tree[r].refName /\ tree[q].type = tree[r].type
          /\ TypedMatches(r) = {d}
          /\ tree[r].refTargetXpath = tree[d].xpath

-----------------------------------------------------------------------------
(* C7 - which definition a reference resolves to.                          *)

\* the non-reference nodes of kind k with name attribute nm
DefinitionsOf(k, nm) ==
    { d \in Nodes : ~tree[d].isRef /\ tree[d].type = k /\ Get(tree[d].attributes, "name") = nm }

\* the non-reference nodes of any kind with name attribute nm
DefinitionsNamed(nm) ==
    { d \in Nodes : ~tree[d].isRef /\ Get(tree[d].attributes, "name") = nm }

\* C7 as stated: a ref node of kind K and stripped reference name N resolves
\* to a non-reference definition of kind K named N when there is one, else to
\* the first non-reference node of any kind named N; a resolved target is
\* never a node that carries a ref attribute.
C7_SameKindElseFirstNamed ==
    Returned =>
        \A r \in Nodes :
            IsLiveRef(r) =>
                LET N == AfterFirstColon(tree[r].refName)
                    sameKind == DefinitionsOf(tree[r].type, N)
                    anyKind == DefinitionsNamed(N)
                IN /\ sameKind # {} =>
                          \E d \in sameKind : tree[r].refTargetXpath = tree[d].xpath
                   /\ sameKind = {} /\ anyKind # {} =>
                          tree[r].refTargetXpath = tree[Smallest(anyKind)].xpath
                   /\ tree[r].refTargetXpath # Undefined =>
                          \E d \in Nodes :
                              ~tree[d].isRef /\ tree[d].xpath = tree[r].refTargetXpath

-----------------------------------------------------------------------------
(* C8 - unresolvable references.                                           *)

\* the keys buildNameIndex registers for a definition
KeysOf(d) == { tree[d].type \o ":" \o tree[d].attributes["name"], tree[d].attributes["name"] }

\* no definition of the tree is registered under either key r looks up
Dangling(r) ==
    LET clean == refNameClean(tree[r].refName)
    IN \A d \in Nodes :
          IsDefinition(d) => KeysOf(d) \cap {tree[r].type \o ":" \o clean, clean} = {}

\* C8: a text whose items the tokenizer returns and that has a schema root
\* yields its tree, not null and not an exception, and in it every ref node
\* whose lookup keys match no registered definition has refTargetXpath unset.
C8_DanglingRefLeftUnset ==
    /\ outcome # "throws"
    /\ outcome # "pending" /\ xsdContent.wellFormed /\ FirstSchemaItem # 0 => Returned
    /\ Returned =>
          \A r \in Nodes :
              IsLiveRef(r) /\ Dangling(r) => tree[r].refTargetXpath = Undefined

\* a returned tree with a dangling reference next to a resolved one
C8_Witness ==
    /\ Returned
    /\ \E r, q \in Nodes :
          /\ IsLiveRef(r) /\ Dangling(r) /\ tree[r].refTargetXpath = Undefined
          /\ IsLiveRef(q) /\ tree[q].refTargetXpath # Undefined

-----------------------------------------------------------------------------
(* C9 - the name a reference is looked up under.                           *)

\* C9 as stated: a ref node is looked up under everything after the first
\* colon of its reference name (the whole name when it has no colon), against
\* definition names registered unstripped.
C9_LookupNameIsAfterFirstColon ==
    Returned =>
        \A r \in Nodes :
            IsLiveRef(r) =>
                tree[r].refTargetXpath =
                    targetXpath(tree,
                                lookupTarget(tree[r].type,
                                             AfterFirstColon(tree[r].refName),
                                             buildNameIndex(tree, Root, EmptyMap)))

-----------------------------------------------------------------------------
(* C10 - when parseXsd returns null.                                       *)

\* C10 as stated: parseXsd never raises; it returns null whenever the text is
\* not well-formed XML or has no top-level xs:schema / xsd:schema element, and
\* otherwise the tree built from the first such element.
C10_NullIffMalformedOrNoSchema ==
    /\ outcome # "throws"
    /\ outcome # "pending" =>
          IF ~xsdContent.wellFormed \/ FirstSchemaItem = 0
          THEN outcome = "null"
          ELSE Returned /\ tree[Root].item = FirstSchemaItem

-----------------------------------------------------------------------------
(* C11, C12 - repeated calls.                                              *)

\* the parseXsd calls made so far, the last one included once it has returned
Calls ==
    IF outcome = "pending" THEN history
    ELSE Append(history, [content |-> xsdContent, outcome |-> outcome, tree |-> tree])

PathSet(t) == { t[n].xpath : n \in 1..Len(t) }

\* C11: parsing the same well-formed schema text twice, with any number of
\* other parseXsd calls in between, yields two trees with the same set of
\* node paths.
C11_SameTextSamePaths ==
    \A i, j \in DOMAIN Calls :
        (Calls[i].content = Calls[j].content /\ Calls[i].content.wellFormed)
            => /\ Calls[i].outcome = Calls[j].outcome
               /\ PathSet(Calls[i].tree) = PathSet(Calls[j].tree)

\* the same text parsed twice into a tree, another text parsed in between
C11_Witness ==
    /\ Len(Calls) = 3
    /\ Calls[1].content = Calls[3].content
    /\ Calls[2].content # Calls[1].content
    /\ Calls[1].content.wellFormed
    /\ Calls[2].outcome = "root"
    /\ Calls[3].outcome = "root"
    /\ Cardinality(PathSet(Calls[3].tree)) > 2

\* the nodes of t made from items that precede the item of node n
Before(t, n) == { m \in 1..Len(t) : t[m].item < t[n].item }

\* C12: within one parseXsd call every node gets a distinct id, ids are handed
\* out in document (pre-order) sequence starting from the root, and the ids of
\* a tree do not depend on the parses that ran before it: the id of a node is
\* "node_k", k being the number of nodes that precede it in the document.
C12_IdsInDocumentOrderPerParse ==
    \A c \in DOMAIN Calls :
        LET t == Calls[c].tree
        IN /\ \A a, b \in 1..Len(t) : a # b => t[a].id # t[b].id
           /\ \A n \in 1..Len(t) :
                 t[n].id = "node_" \o ToString(Cardinality(Before(t, n)))
           /\ \A d \in DOMAIN Calls :
                 (Calls[d].content = Calls[c].content /\ Len(Calls[d].tree) = Len(t))
                     => \A n \in 1..Len(t) : Calls[d].tree[n].id = t[n].id

\* a tree of several nodes returned by a call that follows a call which had
\* left the counter above zero
C12_Witness ==
    /\ Len(Calls) >= 2
    /\ Calls[1].outcome = "root"
    /\ Calls[Len(Calls)].outcome = "root"
    /\ Len(Calls[Len(Calls)].tree) >= 3
    /\ Calls[Len(Calls)].tree[1].id = "node_0"
    /\ Calls[Len(Calls)].content # Calls[1].content

-----------------------------------------------------------------------------
(* Vocabulary of the role properties.                                      *)

\* a determineSchemaRole call has returned; a group has been created
Classified == role # NoRole
Created == filesWithRoles # <<>>

\* the list kept beside each content is what the extractor returns for it
DependenciesKept ==
    \A j \in DOMAIN files :
        files[j].dependencies = parseXsdDependencies(files[j].content)

NamesInList == { files[j].filename : j \in DOMAIN files }

\* the dependencies of file j whose extracted filename is name
Matching(j, name) ==
    { k \in DOMAIN files[j].dependencies :
        extractFilename(files[j].dependencies[k].schemaLocation) = name }

\* the files not named name that have a dependency on name
Referrers(name) ==
    { j \in DOMAIN files : files[j].filename # name /\ Matching(j, name) # {} }

\* some file named name has a non-empty dependency list
ReferencesOthers(name) ==
    \E j \in DOMAIN files :
        files[j].filename = name /\ Len(files[j].dependencies) > 0

IsReferenced(name) == Referrers(name) # {}

RoleOfType(type) == IF type = "import" THEN "imported" ELSE "included"

-----------------------------------------------------------------------------
(* C13 - master.                                                           *)

\* C13: determineSchemaRole returns master exactly when the target file's own
\* extracted dependency list is non-empty and no other file of the set has a
\* dependency whose extracted filename equals the target filename.
C13_MasterIffReferencesAndUnreferenced ==
    Classified =>
        (role.result = "master"
            <=> ReferencesOthers(role.filename) /\ ~IsReferenced(role.filename))

\* a master with two dependencies among three files, and next to it a file
\* that has dependencies but is referenced
C13_Witness ==
    /\ Classified
    /\ role.result = "master"
    /\ Len(files) = 3
    /\ \E j \in DOMAIN files :
          files[j].filename = role.filename /\ Len(files[j].dependencies) = 2
    /\ \E n \in NamesInList : ReferencesOthers(n) /\ IsReferenced(n)

-----------------------------------------------------------------------------
(* C14 - imported or included.                                             *)

\* C14: when the target is referenced by at least one other file, the result
\* is decided by the first dependency on the target found scanning the other
\* files in list order and each file's dependencies in extractor order:
\* imported if it is an import, included if it is an include.
C14_FirstMatchingDependencyDecides ==
    (Classified /\ IsReferenced(role.filename)) =>
        LET j == Smallest(Referrers(role.filename))
            k == Smallest(Matching(j, role.filename))
        IN role.result = RoleOfType(files[j].dependencies[k].type)

\* the target is included by the first referrer and imported by a later one
C14_Witness ==
    /\ Classified
    /\ Cardinality(Referrers(role.filename)) = 2
    /\ LET j == Smallest(Referrers(role.filename))
           l == Largest(Referrers(role.filename))
       IN /\ files[j].dependencies[Smallest(Matching(j, role.filename))].type = "include"
          /\ files[l].dependencies[Smallest(Matching(l, role.filename))].type = "import"
    /\ role.result = "included"

-----------------------------------------------------------------------------
(* C15 - cycles.                                                           *)

\* C15: in a file set in which every file is referenced by some other file of
\* the set, no file is classified master; every file is imported or included.
C15_NoMasterWhenAllReferenced ==
    (/\ Classified
     /\ role.filename \in NamesInList
     /\ \A n \in NamesInList : IsReferenced(n))
        => role.result \in {"imported", "included"}

\* the three-file cycle a -> b -> c -> a of imports
C15_Witness ==
    /\ Classified
    /\ Len(files) = 3
    /\ \A j \in DOMAIN files :
          /\ Len(files[j].dependencies) = 1
          /\ files[j].dependencies[1].type = "import"
          /\ files[j].dependencies[1].schemaLocation = FileNames[(j % 3) + 1]
          /\ files[j].filename = FileNames[j]
    /\ role.filename \in NamesInList
    /\ role.result = "imported"

-----------------------------------------------------------------------------
(* C16 - standalone.                                                       *)

\* C16: a file of the set whose own dependency list is empty and which no
\* other file of the set references is classified standalone.
C16_StandaloneWhenUnrelated ==
    (/\ Classified
     /\ role.filename \in NamesInList
     /\ ~ReferencesOthers(role.filename)
     /\ ~IsReferenced(role.filename))
        => role.result = "standalone"

\* a standalone file beside a master and the file the master imports
C16_Witness ==
    /\ Classified
    /\ Len(files) = 3
    /\ role.filename \in NamesInList
    /\ role.result = "standalone"
    /\ \E n \in NamesInList : ReferencesOthers(n) /\ ~IsReferenced(n)
    /\ \E n \in NamesInList : IsReferenced(n)

-----------------------------------------------------------------------------
(* C17 - two files.                                                        *)

\* files a and b form a pair in which a's only dependency names b and b has none
DependsOnly(a, b) ==
    /\ files[a].filename # files[b].filename
    /\ Len(files[a].dependencies) = 1
    /\ extractFilename(files[a].dependencies[1].schemaLocation) = files[b].filename
    /\ Len(files[b].dependencies) = 0

\* C17: in a two-file set {A, B} where A's only dependency points at B's
\* filename and B has no dependencies, A is master and B is imported when the
\* dependency is an import and included when it is an include, in either
\* order of the two files.
C17_TwoFileRoles ==
    (Classified /\ Len(files) = 2) =>
        \A a, b \in DOMAIN files :
            DependsOnly(a, b) =>
                /\ role.filename = files[a].filename => role.result = "master"
                /\ role.filename = files[b].filename =>
                       role.result = RoleOfType(files[a].dependencies[1].type)

\* B supplied first, A second, A including B, B classified
C17_Witness ==
    /\ Classified
    /\ Len(files) = 2
    /\ DependsOnly(2, 1)
    /\ files[2].dependencies[1].type = "include"
    /\ role.filename = files[1].filename
    /\ role.result = "included"

-----------------------------------------------------------------------------
(* C18 - the explicit master flag.                                         *)

\* the list with no file flagged
Unflagged(list) == [i \in DOMAIN list |-> [list[i] EXCEPT !.isMaster = FALSE]]

\* C18: in group creation a file flagged as master is recorded as master
\* whatever its dependencies and referrers, and every other file gets the
\* role it would get with no file flagged, the flagged files still counting
\* as referrers and as dependency targets.
C18_FlagOverridesOnlyItsFile ==
    Created =>
        \A i \in DOMAIN files :
            /\ filesWithRoles[i].filename = files[i].filename
            /\ filesWithRoles[i].role =
                   IF files[i].isMaster THEN "master"
                   ELSE determineSchemaRole(files[i].filename, Unflagged(files))

\* a flagged file that is itself referenced, recorded as master, and the
\* unflagged file it refers to, recorded as referenced
C18_Witness ==
    /\ Created
    /\ \E i, j \in DOMAIN files :
          /\ files[i].isMaster
          /\ ~files[j].isMaster
          /\ IsReferenced(files[i].filename)
          /\ Referrers(files[j].filename) = {i}
          /\ filesWithRoles[i].role = "master"
          /\ filesWithRoles[j].role \in {"imported", "included"}

-----------------------------------------------------------------------------
(* C19, C20 - the dependency extractor.                                    *)

Extracted == dependencyList # NotCalled

\* the concatenation of the lists of a sequence of lists
RECURSIVE Flatten(_)
Flatten(lists) == IF lists = <<>> THEN <<>> ELSE Head(lists) \o Flatten(Tail(lists))

IsImport(d) == d.type = "import"
IsInclude(d) == d.type = "include"

\* imports first, then includes, each group in the order of list
ImportsThenIncludes(list) == SelectSeq(list, IsImport) \o SelectSeq(list, IsInclude)

\* what the extractor returns for each piece of the text taken by itself
PieceByPiece ==
    [k \in DOMAIN dependencyText.tags |->
        parseXsdDependencies(Chars(dependencyText.tags[k].text))]

\* C19: parseXsdDependencies returns all import dependencies first, in the
\* order their tags occur in the text, followed by all include dependencies
\* in the order their tags occur, however the tags are interleaved.
C19_ImportsFirstInSourceOrder ==
    Extracted => dependencyList = ImportsThenIncludes(Flatten(PieceByPiece))

\* an include, then an import, then an include of another file
C19_Witness ==
    /\ Extracted
    /\ dependencyText.tags = <<IncludeTag("c.xsd"), ImportTag("other.xsd"),
                                IncludeTag("b.xsd")>>
    /\ dependencyList = << Dep("import", "other.xsd", "urn:x"),
                            Dep("include", "c.xsd", Undefined),
                            Dep("include", "b.xsd", Undefined) >>

\* the import and include elements of the text that carry a schemaLocation
\* attribute with a value, in text order
Declared == Flatten([k \in DOMAIN dependencyText.tags |-> dependencyText.tags[k].declares])

\* C20 as stated: parseXsdDependencies returns exactly one dependency per
\* import/include start tag that carries a non-empty schemaLocation attribute
\* and none for a tag without one; every returned dependency has a non-empty
\* schemaLocation; an import with namespace="urn:x" and
\* schemaLocation="other.xsd" yields exactly {import, "other.xsd", "urn:x"},
\* and the same tag without schemaLocation yields nothing.
C20_OneDependencyPerDeclaringTag ==
    Extracted =>
        /\ \A k \in DOMAIN dependencyList : Truthy(dependencyList[k].schemaLocation)
        /\ dependencyList = ImportsThenIncludes(Declared)
        /\ dependencyText.tags = <<ImportTag("other.xsd")>>
              => dependencyList = <<Dep("import", "other.xsd", "urn:x")>>
        /\ dependencyText.tags = <<Tag("<xs:import namespace=\"urn:x\"/>", <<>>)>>
              => dependencyList = <<>>

-----------------------------------------------------------------------------
(* C21 - the file name of a schemaLocation.                                *)

HasSlash(s) == \E k \in 1..Len(s) : SubSeq(s, k, k) = "/"

\* the end of s that holds no "/" and either is all of s or follows a "/"
AfterLastSlash(s) ==
    CHOOSE r \in { SubSeq(s, k, Len(s)) : k \in 1..(Len(s) + 1) } :
        /\ ~HasSlash(r)
        /\ \/ Len(r) = Len(s)
           \/ SubSeq(s, Len(s) - Len(r), Len(s) - Len(r)) = "/"

\* the files not named name with a dependency whose last path segment is name
ReferrersBySegment(name) ==
    { j \in DOMAIN files :
        /\ files[j].filename # name
        /\ \E k \in DOMAIN files[j].dependencies :
              AfterLastSlash(files[j].dependencies[k].schemaLocation) = name }

\* the first file of the list named name, 0 when there is none
FirstNamed(name) ==
    LET at == { i \in DOMAIN files : files[i].filename = name }
    IN IF at = {} THEN 0 ELSE Smallest(at)

\* the rows group creation owes to the dependencies of file i
RowsOwed(i) ==
    LET deps == files[i].dependencies
        linked == SelectSeq([k \in DOMAIN deps |-> k],
                            LAMBDA k : FirstNamed(AfterLastSlash(deps[k].schemaLocation)) # 0)
    IN [x \in DOMAIN linked |->
           [sourceSchema |-> i,
            targetSchema |-> FirstNamed(AfterLastSlash(deps[linked[x]].schemaLocation)),
            dependencyType |-> deps[linked[x]].type,
            namespace |-> deps[linked[x]].namespace,
            schemaLocation |-> deps[linked[x]].schemaLocation]]

\* C21: extractFilename returns the part of the schemaLocation value after
\* its last "/" unchanged (the whole value when it has no "/"), and that part
\* alone is compared with filenames: a target is classified as referenced
\* exactly when another file has a dependency whose last segment is the
\* target filename, and group creation records a row for a dependency exactly
\* when a file of the group is named like its last segment, linked to the
\* first such file.
C21_LastSegmentIsTheKey ==
    /\ \A j \in DOMAIN files :
          \A k \in DOMAIN files[j].dependencies :
              extractFilename(files[j].dependencies[k].schemaLocation)
                  = AfterLastSlash(files[j].dependencies[k].schemaLocation)
    /\ Classified =>
          (role.result \in {"imported", "included"}
              <=> ReferrersBySegment(role.filename) # {})
    /\ Created =>
          schemaDependency = Flatten([i \in DOMAIN files |-> RowsOwed(i)])

\* a group in which a file is linked through a location with a path, and
\* recorded as included on the strength of it
C21_Witness ==
    /\ Created
    /\ \E x \in DOMAIN schemaDependency :
          LET row == schemaDependency[x]
          IN /\ row.schemaLocation = "dir/b.xsd"
             /\ files[row.targetSchema].filename = "b.xsd"
             /\ ~files[row.targetSchema].isMaster
             /\ filesWithRoles[row.targetSchema].role = "included"

-----------------------------------------------------------------------------
(* C22 - the name field.                                                   *)

\* C22 as stated: the name field of every node is the value of its name
\* attribute if present, otherwise the value of its ref attribute, otherwise
\* the empty string.
C22_NameElseRefElseEmpty ==
    Returned =>
        \A n \in Nodes :
            tree[n].name =
                IF HasAttr(n, "name") THEN tree[n].attributes["name"]
                ELSE IF HasAttr(n, "ref") THEN tree[n].attributes["ref"]
                ELSE ""

\* C22 amended: the name field of every node is the value of its name
\* attribute if that is non-empty, otherwise the value of its ref attribute if
\* that is non-empty, otherwise the node's kind: its tag name without the
\* xs:/xsd: prefix.  The name field is never empty.
C22_NameElseRefElseKind ==
    Returned =>
        \A n \in Nodes :
            LET name == Get(tree[n].attributes, "name")
                ref == Get(tree[n].attributes, "ref")
            IN /\ tree[n].name =
                      IF Truthy(name) THEN name
                      ELSE IF Truthy(ref) THEN ref
                      ELSE StripSchemaPrefix(TagOf(n))
               /\ tree[n].name # ""

\* a tree with a named node, a node with a ref only, and a node with neither
C22_Witness ==
    /\ Returned
    /\ \E a, b, c \in Nodes :
          /\ HasAttr(a, "name") /\ tree[a].name = "A"
          /\ ~HasAttr(b, "name") /\ HasAttr(b, "ref") /\ tree[b].name = "A"
          /\ ~HasAttr(c, "name") /\ ~HasAttr(c, "ref") /\ tree[c].name = "sequence"

-----------------------------------------------------------------------------
(* C23 - role classification is total.                                     *)

FileRoles == {"master", "imported", "included", "standalone"}

\* every match of a tag pattern in the text s ends after the place it starts
\* at and within s, so each turn of a "while (regex.exec(...))" loop moves
\* lastIndex forward and the loop ends
LoopsAdvance(s) ==
    \A word \in {"import", "include"} :
        \A i \in 1..Len(s) :
            Char(s, i) = "<" =>
                LET match == tagRegexAt(s, i, word)
                IN match.found => match.lastIndex > i /\ match.lastIndex <= Len(s) + 1

\* C23: for every file list (the empty list, lists with a filename twice,
\* files without dependencies) and every target filename, in the list or
\* not, determineSchemaRole ends and returns one of master, imported,
\* included, standalone; on the empty list it returns standalone.
C23_RoleIsTotal ==
    Classified =>
        /\ role.result \in FileRoles
        /\ Len(files) = 0 => role.result = "standalone"
        /\ \A j \in DOMAIN files : LoopsAdvance(files[j].content)

\* a list with one filename twice and a file without dependencies, and a
\* target that is not in the list
C23_Witness ==
    /\ Classified
    /\ role.filename \notin NamesInList
    /\ \E i, j \in DOMAIN files : i # j /\ files[i].filename = files[j].filename
    /\ \E i, j \in DOMAIN files :
          Len(files[i].dependencies) = 0 /\ Len(files[j].dependencies) > 0
    /\ role.result = "standalone"

-----------------------------------------------------------------------------
(* C24 - children and parents.                                             *)

\* item i of the text is an element: neither a text run nor a comment
IsElementItem(i) == Head(xsdContent.doc[i].keys) \notin {"#text", "#comment"}

\* the items the nodes of a children list were made from, in list order
ItemsOf(children) == [j \in DOMAIN children |-> tree[children[j]].item]

\* C24: the children list of every node holds exactly the element children
\* of the node's XML element, in document order, annotation and documentation
\* elements included, text and comments left out; every node of a children
\* list has the listing node as parent, and the root has no parent.
C24_ChildrenAreElementChildren ==
    Returned =>
        /\ tree[Root].parent = 0
        /\ \A n \in Nodes :
              /\ ItemsOf(tree[n].children)
                     = SelectSeq(Content(xsdContent.doc, tree[n].item), IsElementItem)
              /\ \A j \in DOMAIN tree[n].children :
                     tree[tree[n].children[j]].parent = n

\* a root whose only child is an annotation, which holds a documentation
\* element, which holds text only
C24_Witness ==
    /\ Returned
    /\ \E a, d \in Nodes :
          /\ tree[Root].children = <<a>>
          /\ tree[a].type = "annotation"
          /\ tree[a].children = <<d>>
          /\ tree[d].type = "documentation"
          /\ tree[d].children = <<>>
          /\ Content(xsdContent.doc, tree[d].item) # <<>>

-----------------------------------------------------------------------------
(* C25 - what reference resolution touches.                                *)

\* the tree as parseNode hands it to buildNameIndex and resolveRefs
Built ==
    parseNode(xsdContent.doc, FirstSchemaItem, "", 0,
              [nodes |-> <<>>, idCounter |-> 0]).st.nodes

\* C25: reference resolution changes nothing in the tree except the
\* refTargetXpath field of nodes that carry a ref attribute: ids, names,
\* kinds, paths, attributes, children, parents and the reference fields are
\* the same before and after it, and a node without a ref attribute never has
\* refTargetXpath set.
C25_ResolutionOnlySetsTargetOfRefs ==
    Returned =>
        \A before \in {Built} :
            /\ Len(tree) = Len(before)
            /\ \A n \in Nodes :
                  /\ before[n].refTargetXpath = Undefined
                  /\ [tree[n] EXCEPT !.refTargetXpath = Undefined] = before[n]
                  /\ ~HasAttr(n, "ref") => tree[n].refTargetXpath = Undefined

\* a tree in which a reference was resolved to a definition that has a child
C25_Witness ==
    /\ Returned
    /\ \E r, d \in Nodes :
          /\ HasAttr(r, "ref") /\ tree[r].refTargetXpath = tree[d].xpath
          /\ ~HasAttr(d, "ref") /\ tree[d].refTargetXpath = Undefined
          /\ tree[d].children # <<>>

-----------------------------------------------------------------------------
(* C26 - several definitions of one name.                                  *)

\* the reference r finds nothing under its type-qualified key and goes on to
\* the bare key: no definition is registered under "<kind>:<name>" of r
FallsBack(r) ==
    \A d \in Nodes :
        IsDefinition(d) =>
            (tree[r].type \o ":" \o refNameClean(tree[r].refName)) \notin KeysOf(d)

\* the definitions of any kind named like the reference r
BareMatches(r) ==
    { d \in Nodes :
        IsDefinition(d) /\ tree[d].attributes["name"] = refNameClean(tree[r].refName) }

\* C26: when a tree holds several non-reference definitions of one kind and
\* name, a ref of that kind and name resolves to the LAST of them in document
\* order; a ref that falls back to the bare name key resolves to the FIRST
\* definition of that name in document order.
C26_LastOfKindFirstOfName ==
    Returned =>
        \A r \in Nodes :
            IsLiveRef(r) =>
                /\ Cardinality(TypedMatches(r)) > 1 =>
                       tree[r].refTargetXpath = tree[Largest(TypedMatches(r))].xpath
                /\ (FallsBack(r) /\ BareMatches(r) # {}) =>
                       tree[r].refTargetXpath = tree[Smallest(BareMatches(r))].xpath

\* an element reference in a tree without element definitions but with two
\* complexType definitions of its name, one inside the other, resolved to the
\* outer one
C26_Witness ==
    /\ Returned
    /\ \E r, d, e \in Nodes :
          /\ IsLiveRef(r) /\ FallsBack(r)
          /\ d < e /\ {d, e} \subseteq BareMatches(r)
          /\ tree[d].xpath # tree[e].xpath
          /\ tree[r].refTargetXpath = tree[d].xpath

-----------------------------------------------------------------------------
(* C27 - the order of the file list.                                       *)

\* the orders a list of n files can be supplied in
Orders(n) ==
    { f \in [1..n -> 1..n] : \A a, b \in 1..n : f[a] = f[b] => a = b }

Permuted(list, f) == [i \in DOMAIN list |-> list[f[i]]]

\* master, standalone, or one of the two referenced roles
RoleClass(result) == IF result \in {"imported", "included"} THEN "referenced" ELSE result

\* C27: for every file list and target filename, supplying the list in
\* another order never changes whether determineSchemaRole returns master,
\* standalone or a referenced role; the one thing the order can change is
\* imported versus included.
C27_OrderChangesOnlyImportedVsIncluded ==
    Classified =>
        \A f \in Orders(Len(files)) :
            RoleClass(determineSchemaRole(role.filename, Permuted(files, f)))
                = RoleClass(role.result)

\* three files, the target imported by one and included by another: the
\* result is imported in this order and included in another
C27_Witness ==
    /\ Classified
    /\ Len(files) = 3
    /\ role.result = "imported"
    /\ \E f \in Orders(Len(files)) :
          determineSchemaRole(role.filename, Permuted(files, f)) = "included"

-----------------------------------------------------------------------------
(* C28 - the fallback.                                                     *)

\* C28: the final "included" fallback of determineSchemaRole is never taken:
\* whenever isReferenced is true the second scan finds a matching dependency,
\* so included is returned only when the first matching dependency found in
\* list order is an include.
C28_FallbackNeverTaken ==
    Classified =>
        /\ ~role.fallback
        /\ role.result = "included" =>
              /\ IsReferenced(role.filename)
              /\ LET j == Smallest(Referrers(role.filename))
                 IN files[j].dependencies[Smallest(Matching(j, role.filename))].type
                        = "include"

\* a target whose only referrer is the last file of three and names it
\* through a location with a folder: the second scan runs through the list
\* and returns included at the last file
C28_Witness ==
    /\ Classified
    /\ Len(files) = 3
    /\ Referrers(role.filename) = {3}
    /\ \E k \in Matching(3, role.filename) :
          HasSlash(files[3].dependencies[k].schemaLocation)
    /\ role.result = "included"
    /\ ~role.fallback

-----------------------------------------------------------------------------
(* Vocabulary of the upload properties.                                    *)

\* the lists kept beside each content are what the two extractors return
ExtractorsKept ==
    /\ \A i \in DOMAIN fileList :
          /\ fileList[i].extracted = extractDependencies(fileList[i].text)
          /\ fileList[i].parsed = parseXsdDependencies(fileList[i].text)
    /\ \A i \in DOMAIN uploadedFiles :
          /\ uploadedFiles[i].dependencies = extractDependencies(uploadedFiles[i].content)
          /\ uploadedFiles[i].parsed = parseXsdDependencies(uploadedFiles[i].content)

\* a determineRole call of the form has returned
Rendered == uploadRole # NoUploadRole

\* no two listed files have the same filename
DistinctNames ==
    \A i, j \in DOMAIN uploadedFiles :
        i # j => uploadedFiles[i].filename # uploadedFiles[j].filename

\* the listed files as the backend reads them: filename, content, flag, and
\* for the content what parseXsdDependencies returns
Payload ==
    [i \in DOMAIN uploadedFiles |->
        [filename |-> uploadedFiles[i].filename, content |-> uploadedFiles[i].content,
         isMaster |-> uploadedFiles[i].isMaster,
         dependencies |-> uploadedFiles[i].parsed]]

\* the listed files with a flag set
Flagged == { i \in DOMAIN uploadedFiles : uploadedFiles[i].isMaster }

-----------------------------------------------------------------------------
(* C29 - the form's role inference and the backend's.                      *)

\* C29 as stated: on every file set with distinct filenames the form's
\* determineRole (over extractDependencies) and the backend's
\* determineSchemaRole agree on which files are master and which are
\* standalone; the form says imported for every referenced file, where the
\* backend says imported or included.
C29_FormAndBackendAgree ==
    (Rendered /\ DistinctNames) =>
        LET ui == uploadRole.result
            backend == determineSchemaRole(uploadedFiles[uploadRole.file].filename,
                                           Payload)
        IN /\ (ui = "master") <=> (backend = "master")
           /\ (ui = "standalone") <=> (backend = "standalone")
           /\ (ui = "imported") <=> (backend \in {"imported", "included"})

-----------------------------------------------------------------------------
(* C30 - the flags of the upload list.                                     *)

\* the master rule for listed file i: it has dependencies and no listed file
\* of another name has its name among its dependencies
MasterRule(i) ==
    /\ Len(uploadedFiles[i].dependencies) > 0
    /\ \A j \in DOMAIN uploadedFiles :
          uploadedFiles[j].filename # uploadedFiles[i].filename
              => ~includes(uploadedFiles[j].dependencies, uploadedFiles[i].filename)

\* C30 as stated: after any sequence of handleFiles and removeFile with no
\* manual toggle, every flagged file satisfies the master rule with respect
\* to the current list; a toggleMaster leaves at most one file flagged, the
\* toggled one or none.
C30_FlagsFollowRuleOrToggle ==
    /\ ~uploadEvent.manual => \A i \in Flagged : MasterRule(i)
    /\ uploadEvent.op = "toggleMaster" =>
          /\ Cardinality(Flagged) <= 1
          /\ \A i \in Flagged : uploadedFiles[i].filename = uploadEvent.filename

=============================================================================
